---- MODULE Spec2Model ----
(***************************************************************************)
(* Model of hn_digest: the text chunker and the audio renderer of          *)
(* src/hn_digest/podcast_generator.py (class PodcastGenerator), and the    *)
(* keyword matcher and the ranker of src/hn_digest/content_filter.py       *)
(* (class ContentFilter).  Line numbers in the comments of a section refer *)
(* to the file of that section.                                            *)
(*                                                                         *)
(* A text is a sequence of one-character strings.  Python indices are      *)
(* 0-based; the operators below return 0-based positions (and -1 for "not  *)
(* found") exactly as str.rfind does, and convert to 1-based only when     *)
(* they index a TLA+ sequence.                                             *)
(***************************************************************************)
EXTENDS Integers, Sequences, FiniteSets, TLC

(***************************************************************************)
(* Bounds of the model.                                                    *)
(***************************************************************************)
\* largest per-chunk ceiling tried (the program fixes MAX_CHUNK_SIZE = 4000;
\* the chunker's claims quantify over every ceiling >= 1)
MaxChunk == 8
\* a text of the chunker specification is built from at most MaxTokens tokens
MaxTokens == 5

\* largest per-chunk ceiling of a render
MaxRenderChunk == 2
\* a text handed to generate_podcast is built from at most this many tokens
MaxRenderTokens == 4
\* a title handed to _calculate_ai_score is built from at most this many tokens
MaxTitleTokens == 2
\* a URL handed to _calculate_ai_score is built from at most this many tokens
MaxUrlTokens == 2
\* the ceilings of the wide chunker runs are 10..MaxWideChunk
MaxWideChunk == 14
\* a text of a wide chunker run is built from at most this many tokens
MaxWideTokens == 5
\* send_digest_email is called with max_retries in 0..MaxRetries
MaxRetries == 3
\* the top-stories response lists at most this many story ids
MaxIds == 3

MaxDigestStories == 3
\* the list handed to filter_and_score_stories has at most this many stories
MaxStories == 3
\* Config.MAX_ARTICLES is at most this
MaxArticles == 2
\* a name handed to get_podcast_filename is built from at most this many tokens
MaxNameTokens == 3

(***************************************************************************)
(* Characters and texts.                                                   *)
(***************************************************************************)
\* characters str.strip()/str.lstrip() remove (the ones the model generates)
Whitespace == {" ", "\n"}

\* pieces the generated texts are made of: letters, sentence ends,
\* a paragraph break, a space
Tokens ==
  { <<"a">>, <<"a", "a", "a", "a">>, <<".", " ">>, <<"?", " ">>,
    <<"\n", "\n">>, <<" ">> }

RECURSIVE Flatten(_)
Flatten(ss) == IF ss = <<>> THEN <<>> ELSE Head(ss) \o Flatten(Tail(ss))

Texts ==
  { Flatten(ts) : ts \in UNION { [1..n -> Tokens] : n \in 0..MaxTokens } }

ChunkSizes == 1..MaxChunk

\* texts and ceilings of the render specification
RenderTokens == { <<"a">>, <<" ">> }

RenderTexts ==
  { Flatten(ts) :
      ts \in UNION { [1..n -> RenderTokens] : n \in 0..MaxRenderTokens } }

RenderSizes == 1..MaxRenderChunk

(***************************************************************************)
(* Python string primitives.                                               *)
(***************************************************************************)
Max2(a, b) == IF a >= b THEN a ELSE b

\* s[:n] for n >= 0
Prefix(s, n) == SubSeq(s, 1, IF n <= Len(s) THEN n ELSE Len(s))

\* s[n:] for n >= 0
Suffix(s, n) == SubSeq(s, n + 1, Len(s))

\* s.rfind(c) for a one-character c: last 0-based position, -1 if none
RFind1(s, c) ==
  LET hits == { i \in 1..Len(s) : s[i] = c }
  IN  IF hits = {} THEN -1 ELSE (CHOOSE i \in hits : \A j \in hits : j <= i) - 1

\* s.rfind(c1 + c2) for a two-character pattern
RFind2(s, c1, c2) ==
  LET hits == { i \in 1..(Len(s) - 1) : s[i] = c1 /\ s[i + 1] = c2 }
  IN  IF hits = {} THEN -1 ELSE (CHOOSE i \in hits : \A j \in hits : j <= i) - 1

\* s.lstrip()
RECURSIVE LStrip(_)
LStrip(s) ==
  IF s # <<>> /\ Head(s) \in Whitespace THEN LStrip(Tail(s)) ELSE s

\* mutant: only the empty string is rejected
IsBlank_EmptyOnly(s) == s = <<>>

\* not text or not text.strip()
IsBlank(s) == s = <<>> \/ LStrip(s) = <<>>

\* the characters of s that are not whitespace, in order
RECURSIVE NonWhitespace(_)
NonWhitespace(s) ==
  IF s = <<>> THEN <<>>
  ELSE IF Head(s) \in Whitespace THEN NonWhitespace(Tail(s))
  ELSE <<Head(s)>> \o NonWhitespace(Tail(s))

(***************************************************************************)
(* _split_text_into_chunks: one iteration of the while loop.               *)
(* pos > M * 0.7 is computed in integers as 10 * pos > 7 * M; the two      *)
(* agree for every M < 90 and for M = 4000 (4000 * 0.7 = 2800.0).          *)
(***************************************************************************)
\* max(chunk.rfind('. '), chunk.rfind('! '), chunk.rfind('? '))
SentenceBreak(chunk) ==
  Max2(RFind2(chunk, ".", " "),
       Max2(RFind2(chunk, "!", " "), RFind2(chunk, "?", " ")))

\* mutant: the sentence break is searched in the whole remaining text
NextChunk_SearchRemaining(rem, M) ==
  LET chunk == Prefix(rem, M)
      sentence_break == SentenceBreak(rem)
      paragraph_break == RFind2(chunk, "\n", "\n")
      word_break == RFind1(chunk, " ")
  IN  IF 10 * sentence_break > 7 * M THEN Prefix(rem, sentence_break + 2)
      ELSE IF 10 * paragraph_break > 7 * M THEN Prefix(rem, paragraph_break + 2)
      ELSE IF 10 * word_break > 8 * M THEN Prefix(rem, word_break)
      ELSE chunk

\* mutant: no hard cut; without a good space the cut is at the last space
\* or, when the window has none, at position 0
NextChunk_NoHardCut(rem, M) ==
  LET chunk == Prefix(rem, M)
      sentence_break == SentenceBreak(chunk)
      paragraph_break == RFind2(chunk, "\n", "\n")
      word_break == RFind1(chunk, " ")
  IN  IF 10 * sentence_break > 7 * M THEN Prefix(rem, sentence_break + 2)
      ELSE IF 10 * paragraph_break > 7 * M THEN Prefix(rem, paragraph_break + 2)
      ELSE Prefix(rem, Max2(word_break, 0))

\* mutant: the paragraph break is tried before the sentence break
NextChunk_ParagraphFirst(rem, M) ==
  LET chunk == Prefix(rem, M)
      sentence_break == SentenceBreak(chunk)
      paragraph_break == RFind2(chunk, "\n", "\n")
      word_break == RFind1(chunk, " ")
  IN  IF 10 * paragraph_break > 7 * M THEN Prefix(rem, paragraph_break + 2)
      ELSE IF 10 * sentence_break > 7 * M THEN Prefix(rem, sentence_break + 2)
      ELSE IF 10 * word_break > 8 * M THEN Prefix(rem, word_break)
      ELSE chunk

\* the chunk peeled off the front of rem when Len(rem) > M
NextChunk(rem, M) ==
  LET chunk == Prefix(rem, M)
      sentence_break == SentenceBreak(chunk)
      paragraph_break == RFind2(chunk, "\n", "\n")
      word_break == RFind1(chunk, " ")
  IN  IF 10 * sentence_break > 7 * M THEN Prefix(rem, sentence_break + 2)
      ELSE IF 10 * paragraph_break > 7 * M THEN Prefix(rem, paragraph_break + 2)
      ELSE IF 10 * word_break > 8 * M THEN Prefix(rem, word_break)
      ELSE chunk

\* which of the four rules of lines 78-90 NextChunk(rem, M) applies
BreakRule(rem, M) ==
  LET chunk == Prefix(rem, M)
  IN  IF 10 * SentenceBreak(chunk) > 7 * M THEN "sentence"
      ELSE IF 10 * RFind2(chunk, "\n", "\n") > 7 * M THEN "paragraph"
      ELSE IF 10 * RFind1(chunk, " ") > 8 * M THEN "word"
      ELSE "hard"

\* mutant: the character after the chunk is skipped unseen
Advance_SkipOne(rem, chunk) == LStrip(Suffix(rem, Len(chunk) + 1))

\* remaining_text[len(chunk):].lstrip()
Advance(rem, chunk) == LStrip(Suffix(rem, Len(chunk)))

\* mutant: the short text is stripped before it is returned
WholeText_Stripped(t) == <<LStrip(t)>>

\* line 58: [text]
WholeText(t) == <<t>>

\* the whole function, as the list it returns
RECURSIVE SplitLoop(_, _)
SplitLoop(rem, M) ==
  IF rem = <<>> THEN <<>>
  ELSE IF Len(rem) <= M THEN <<rem>>
  ELSE LET chunk == NextChunk(rem, M)
       IN  <<chunk>> \o SplitLoop(Advance(rem, chunk), M)

SplitTextIntoChunks(t, M) ==
  IF Len(t) <= M THEN WholeText(t) ELSE SplitLoop(t, M)

(***************************************************************************)
(* State of the chunker run.                                               *)
(***************************************************************************)
VARIABLES
  text,            \* the argument of _split_text_into_chunks
  maxChunkSize,    \* MAX_CHUNK_SIZE of this run
  remaining_text,  \* local remaining_text
  chunks,          \* local chunks
  rules,           \* ghost: the rule that cut each chunk of the loop
  cpc              \* position: "entry", "loop", "done"

cvars == <<text, maxChunkSize, remaining_text, chunks, rules, cpc>>

(***************************************************************************)
(* State of one generate_podcast(text, output_path) call.  A path holds    *)
(* Absent or File(d), d the sequence of blocks in the file (File(<<>>) is  *)
(* an empty file).  Python's True and False are "True" and "False".        *)
(***************************************************************************)
Absent == [exists |-> FALSE, data |-> <<>>]

File(d) == [exists |-> TRUE, data |-> d]

VARIABLES
  rpc,           \* position inside generate_podcast
  dir_exists,    \* Path(output_path).parent exists
  dest,          \* the file at output_path
  text_chunks,   \* local text_chunks
  temp_files,    \* the temporary files of temp_files, in list order
  idx,           \* loop variable i of the synthesis loop (1-based)
  cidx,          \* position of the cleanup loop in temp_files (1-based)
  pending,       \* what the try block leaves: "True", "False" or "raise"
  result,        \* value returned by generate_podcast, "none" before
  calls,         \* ghost: input of every client.audio.speech.create call
  segments,      \* ghost: what each successful synthesis wrote
  failed_at,     \* ghost: index of the first chunk whose synthesis raised
                 \*        or left its temp file missing or empty, or 0
  dest0,         \* ghost: the file at output_path when the call started
  dest_written,  \* ghost: this call opened output_path for writing
  unlink_tried,  \* ghost: temp files on which os.unlink was called
  raised,        \* ghost: the operations that raised an exception
  dir_exists0    \* ghost: dir_exists when the call started

rvars == <<rpc, dir_exists, dest, text_chunks, temp_files, idx, cidx, pending,
           result, calls, segments, failed_at, dest0, dest_written,
           unlink_tried, raised, dir_exists0>>

\* the ghosts that record the state at the start of the call
start0 == <<dest0, dir_exists0>>

(***************************************************************************)
(* State of one _calculate_ai_score(title, url) call                       *)
(* (src/hn_digest/content_filter.py).                                      *)
(***************************************************************************)
VARIABLES
  title,         \* argument title
  url,           \* argument url
  score_out,     \* returned score, -1 before the call
  matched_out,   \* returned matched_keywords
  spc            \* position: "call", "done"

svars == <<title, url, score_out, matched_out, spc>>

ScoreIdle ==
  /\ title = <<>>
  /\ url = <<>>
  /\ score_out = -1
  /\ matched_out = <<>>
  /\ spc = "idle"

(***************************************************************************)
(* State of one filter_and_score_stories(stories) call.  Story dicts are   *)
(* objects: heap maps an object id to the dict's fields, lists hold ids.   *)
(***************************************************************************)
VARIABLES
  heap,          \* the dicts: object id -> record of the dict's keys
  stories,       \* argument stories: list of object ids
  ai_stories,    \* local ai_stories: list of object ids
  fidx,          \* position of the for loop in stories (1-based)
  max_articles,  \* Config.MAX_ARTICLES of this run
  filtered,      \* returned list of object ids
  fpc,           \* position: "loop", "sort", "done"
  heap0,         \* ghost: heap when the call started
  stories0       \* ghost: stories when the call started

fvars == <<heap, stories, ai_stories, fidx, max_articles, filtered, fpc,
           heap0, stories0>>

FilterIdle ==
  /\ heap = <<>>
  /\ stories = <<>>
  /\ ai_stories = <<>>
  /\ fidx = 0
  /\ max_articles = 0
  /\ filtered = <<>>
  /\ fpc = "idle"
  /\ heap0 = <<>>
  /\ stories0 = <<>>

(***************************************************************************)
(* State of one get_podcast_filename(digest_filename) call.                *)
(***************************************************************************)
VARIABLES
  digest_filename,   \* the argument
  podcast_filename,  \* the returned name
  npc                \* position: "call", "done"

nvars == <<digest_filename, podcast_filename, npc>>

NameIdle ==
  /\ digest_filename = <<>>
  /\ podcast_filename = <<>>
  /\ npc = "idle"

(***************************************************************************)
(* State of one PodcastGenerator(api_key, voice) construction              *)
(* (podcast_generator.py, lines 27-45).                                    *)
(***************************************************************************)
VARIABLES
  api_key,       \* argument api_key
  voice,         \* argument voice
  self_voice,    \* self.voice, "" while the object does not exist
  ctor_error,    \* the ValueError raised: "", "key" or "voice"
  kpc            \* position: "new", "constructed", "raised"

kvars == <<api_key, voice, self_voice, ctor_error, kpc>>

CtorIdle ==
  /\ api_key = ""
  /\ voice = ""
  /\ self_voice = ""
  /\ ctor_error = ""
  /\ kpc = "idle"

(***************************************************************************)
(* State of one send_digest_email(subject, content, max_retries,           *)
(* retry_delay) call (email_sender.py, lines 33-83).                       *)
(***************************************************************************)
VARIABLES
  max_retries,   \* argument max_retries
  retry_delay,   \* argument and local retry_delay
  attempt,       \* loop variable of range(max_retries)
  last_error,    \* local last_error, "" for None
  eresult,       \* returned value: "none", "True", "False"
  epc,           \* position: "loop", "except", "returned"
  etrace,        \* ghost: outcome of every attempt and "sleep" per sleep
  delays         \* ghost: the arguments of the time.sleep calls

evars == <<max_retries, retry_delay, attempt, last_error, eresult, epc,
           etrace, delays>>

EmailIdle ==
  /\ max_retries = 0
  /\ retry_delay = 0
  /\ attempt = 0
  /\ last_error = ""
  /\ eresult = "none"
  /\ epc = "idle"
  /\ etrace = <<>>
  /\ delays = <<>>

(***************************************************************************)
(* State of one fetch_and_filter_stories() call (main.py, lines 33-64)     *)
(* with the HackerNews client it uses (hn_client.py).                      *)
(***************************************************************************)
VARIABLES
  top_response,   \* what the request for the top stories gives
  item_responses, \* story id -> what the request for that item gives
  story_ids,      \* local story_ids
  batch,          \* the list stories built by get_stories_batch
  bidx,           \* position of the loop of get_stories_batch (1-based)
  fetch_result,   \* the returned list
  apc,            \* position: "top", "batch", "filter", "returned"
  api_requests,   \* ghost: the requests made, "top" or a story id as text
  ranker_calls    \* ghost: the arguments of filter_and_score_stories calls

avars == <<top_response, item_responses, story_ids, batch, bidx,
           fetch_result, apc, api_requests, ranker_calls>>

FetchIdle ==
  /\ top_response = [status |-> "error"]
  /\ item_responses = <<>>
  /\ story_ids = <<>>
  /\ batch = <<>>
  /\ bidx = 0
  /\ fetch_result = <<>>
  /\ apc = "idle"
  /\ api_requests = <<>>
  /\ ranker_calls = <<>>

VARIABLES
  dry_run,            \* argument dry_run
  with_podcast,       \* argument generate_podcast
  email_sender,       \* self.email_sender: "None" or "sender"
  email_content,      \* local email_content, "" before it is formatted
  email_sent,         \* the digest email was sent
  failure_message,    \* error_message of _handle_email_failure, "" if none
  backup_writes,      \* outcomes of the backup writes that were attempted
  critical_ran,       \* _handle_critical_failure was entered
  fallback_attempted, \* send_fallback_email was called
  fallback_sent,      \* send_fallback_email returned True
  error_log_writes,   \* outcomes of the error-log writes attempted
  podcast_calls,      \* number of calls of self.generate_podcast
  dpc                 \* position in run_full_digest_with_email

dvars == <<dry_run, with_podcast, email_sender, email_content, email_sent,
           failure_message, backup_writes, critical_ran,
           fallback_attempted, fallback_sent, error_log_writes,
           podcast_calls, dpc>>

DigestIdle ==
  /\ dry_run = FALSE
  /\ with_podcast = FALSE
  /\ email_sender = "None"
  /\ email_content = ""
  /\ email_sent = FALSE
  /\ failure_message = ""
  /\ backup_writes = <<>>
  /\ critical_ran = FALSE
  /\ fallback_attempted = FALSE
  /\ fallback_sent = FALSE
  /\ error_log_writes = <<>>
  /\ podcast_calls = 0
  /\ dpc = "idle"

VARIABLES
  story_list,    \* argument stories of scrape_and_summarize_stories
  summaries,     \* local summaries: url -> entry
  midx,          \* position of the loop in story_list
  outcomes,      \* per story handled: what the scraper and summarizer gave
  collab_calls,  \* the scrape and summarize calls made, in order
  mpc            \* position: "loop", "returned"

mvars == <<story_list, summaries, midx, outcomes, collab_calls,
           mpc>>

SummIdle ==
  /\ story_list = <<>>
  /\ summaries = <<>>
  /\ midx = 0
  /\ outcomes = <<>>
  /\ collab_calls = <<>>
  /\ mpc = "idle"

xvars == <<kvars, evars, avars, dvars, mvars>>

XIdle == CtorIdle /\ EmailIdle /\ FetchIdle /\ DigestIdle /\ SummIdle

ovars == <<svars, fvars, nvars, xvars>>

OthersIdle == ScoreIdle /\ FilterIdle /\ NameIdle /\ XIdle

vars == <<cvars, rvars, ovars>>

\* the chunker variables while another component runs
ChunkIdle ==
  /\ text = <<>>
  /\ maxChunkSize = 0
  /\ remaining_text = <<>>
  /\ chunks = <<>>
  /\ rules = <<>>
  /\ cpc = "idle"

\* the render variables while another component runs
RenderIdle ==
  /\ rpc = "idle"
  /\ dir_exists = FALSE
  /\ dest = Absent
  /\ text_chunks = <<>>
  /\ temp_files = <<>>
  /\ idx = 0
  /\ cidx = 0
  /\ pending = "none"
  /\ result = "none"
  /\ calls = <<>>
  /\ segments = <<>>
  /\ failed_at = 0
  /\ dest0 = Absent
  /\ dest_written = FALSE
  /\ unlink_tried = {}
  /\ raised = {}
  /\ dir_exists0 = FALSE

ChunkInit ==
  /\ text \in Texts
  /\ maxChunkSize \in ChunkSizes
  /\ remaining_text = <<>>
  /\ chunks = <<>>
  /\ rules = <<>>
  /\ cpc = "entry"
  /\ RenderIdle
  /\ OthersIdle

\* lines 57-61: short text returns [text]; otherwise enter the loop
SplitEntry ==
  /\ cpc = "entry"
  /\ IF Len(text) <= maxChunkSize
       THEN /\ chunks' = WholeText(text)
            /\ remaining_text' = remaining_text
            /\ cpc' = "done"
       ELSE /\ chunks' = <<>>
            /\ remaining_text' = text
            /\ cpc' = "loop"
  /\ rules' = IF Len(text) <= maxChunkSize THEN <<"whole">> ELSE <<>>
  /\ UNCHANGED <<text, maxChunkSize, rvars, ovars>>

\* lines 63-66: loop exit (remaining empty) or last chunk
SplitLast ==
  /\ cpc = "loop"
  /\ Len(remaining_text) <= maxChunkSize
  /\ chunks' = IF remaining_text = <<>> THEN chunks
               ELSE Append(chunks, remaining_text)
  /\ rules' = IF remaining_text = <<>> THEN rules ELSE Append(rules, "rest")
  /\ cpc' = "done"
  /\ UNCHANGED <<text, maxChunkSize, remaining_text, rvars, ovars>>

\* lines 68-93: peel one chunk off the front
SplitStep ==
  /\ cpc = "loop"
  /\ Len(remaining_text) > maxChunkSize
  /\ LET chunk == NextChunk(remaining_text, maxChunkSize)
     IN  /\ chunks' = Append(chunks, chunk)
         /\ remaining_text' = Advance(remaining_text, chunk)
  /\ rules' = Append(rules, BreakRule(remaining_text, maxChunkSize))
  /\ UNCHANGED <<text, maxChunkSize, cpc, rvars, ovars>>

ChunkNext == SplitEntry \/ SplitLast \/ SplitStep

SpecChunk == ChunkInit /\ [][ChunkNext]_vars

FairSpecChunk == SpecChunk /\ WF_vars(ChunkNext)

\* the same call with ceilings of 10 and more, where the 70% and 80%
\* thresholds fall between two positions or exactly on one
WideTokens ==
  { <<"a", "a", "a", "a", "a", "a", "a">>, <<"a", "a", "a">>, <<"a">>,
    <<".", " ">>, <<" ">>, <<"\n", "\n">> }

WideTexts ==
  { Flatten(ts) :
      ts \in UNION { [1..n -> WideTokens] : n \in 0..MaxWideTokens } }

WideSizes == 10..MaxWideChunk

WideInit ==
  /\ text \in WideTexts
  /\ maxChunkSize \in WideSizes
  /\ remaining_text = <<>>
  /\ chunks = <<>>
  /\ rules = <<>>
  /\ cpc = "entry"
  /\ RenderIdle
  /\ OthersIdle

SpecChunkWide == WideInit /\ [][ChunkNext]_vars

(***************************************************************************)
(* generate_podcast and its helpers.  The speech service and the file      *)
(* system are the environment: each call to them picks one outcome.        *)
(***************************************************************************)
\* the audio the i-th synthesis call returns, as two blocks
Audio(i) == << <<i, "head">>, <<i, "tail">> >>

\* what a write that raised half way leaves behind
PartialAudio(i) == << <<i, "head">> >>

\* outcomes of create(...) followed by response.stream_to_file(path):
\*   api_error    create raises RateLimitError, APIConnectionError,
\*                APITimeoutError or APIError
\*   other_error  create raises any other exception
\*   full         the file holds the audio
\*   empty        the call reports success and the file is empty
\*   absent       the call reports success and there is no file
\*   noop         the call reports success and the path is untouched
\*   partial      stream_to_file raises after writing a part
SynthOutcomes ==
  {"api_error", "other_error", "full", "empty", "absent", "noop", "partial"}

\* the file at path after stream_to_file(path) with outcome k
Streamed(k, i, before) ==
  CASE k = "full" -> File(Audio(i))
    [] k = "empty" -> File(<<>>)
    [] k = "absent" -> Absent
    [] k = "partial" -> File(PartialAudio(i))
    [] OTHER -> before

\* mutant: the size of the destination is not looked at
DestVerified_ExistsOnly(f) == f.exists

\* lines 174-181 and 238-245: os.path.exists and getsize != 0
DestVerified(f) == f.exists /\ Len(f.data) # 0

\* mutant: the size of the chunk file is not looked at
ChunkVerified_ExistsOnly(f) == f.exists

\* line 225, negated: the chunk file exists and is not empty
ChunkVerified(f) == f.exists /\ Len(f.data) # 0

\* mutant: every chunk file is written over the previous one
Combined_LastOnly(files) ==
  IF files = <<>> THEN <<>> ELSE files[Len(files)].data

\* lines 111-114: the files' bytes, appended in list order
Combined(files) == Flatten([i \in 1..Len(files) |-> files[i].data])

\* mutant: a failed os.unlink escapes the finally block
AfterCleanup_NoTry(pend, unlink_failed) ==
  IF unlink_failed THEN "raise" ELSE pend

\* lines 252-259: a failed os.unlink is logged, the pending outcome stays
AfterCleanup(pend, unlink_failed) == pend

\* mutant: no except clause around the body of generate_podcast
Returned_NoCatch(pend) == pend

\* lines 156-158: an exception that reaches generate_podcast returns False
Returned(pend) == IF pend = "True" THEN "True" ELSE "False"

\* Python's bool as the model writes it
PyBool(b) == IF b THEN "True" ELSE "False"

RenderInit ==
  /\ text \in RenderTexts
  /\ maxChunkSize \in RenderSizes
  /\ remaining_text = <<>>
  /\ chunks = <<>>
  /\ rules = <<>>
  /\ cpc = "idle"
  /\ rpc = "start"
  /\ dest0 \in {Absent, File(<<>>), File(<< <<0, "old">> >>)}
  /\ dest = dest0
  /\ dir_exists \in IF dest0 = Absent THEN BOOLEAN ELSE {TRUE}
  /\ dir_exists0 = dir_exists
  /\ text_chunks = <<>>
  /\ temp_files = <<>>
  /\ idx = 0
  /\ cidx = 0
  /\ pending = "none"
  /\ result = "none"
  /\ calls = <<>>
  /\ segments = <<>>
  /\ failed_at = 0
  /\ dest_written = FALSE
  /\ unlink_tried = {}
  /\ raised = {}
  /\ OthersIdle

\* lines 135-140: blank input is rejected
GP_Entry ==
  /\ rpc = "start"
  /\ IF IsBlank(text)
       THEN /\ result' = "False"
            /\ rpc' = "returned"
       ELSE /\ result' = result
            /\ rpc' = "mkdir"
  /\ UNCHANGED <<ovars, cvars,
                 dir_exists, dest, text_chunks, temp_files, idx, cidx,
                 pending, calls, segments, failed_at, start0, dest_written,
                 unlink_tried, raised>>

\* mutant: exist_ok is dropped, an existing directory is an error
MkdirSucceeds_NotExistOk(exists, ok) == ~exists /\ ok

\* line 144: mkdir(parents=True, exist_ok=True) succeeds when the directory
\* exists already, and otherwise when the file system lets it (ok)
MkdirSucceeds(exists, ok) == exists \/ ok

\* line 144: mkdir(parents=True, exist_ok=True); may raise (lines 156-158)
GP_Mkdir ==
  /\ rpc = "mkdir"
  /\ \E ok \in BOOLEAN :
       IF MkdirSucceeds(dir_exists, ok)
         THEN /\ dir_exists' = TRUE
              /\ rpc' = "split"
              /\ result' = result
              /\ raised' = raised
         ELSE /\ dir_exists' = dir_exists
              /\ rpc' = "returned"
              /\ result' = Returned("raise")
              /\ raised' = raised \cup {"mkdir"}
  /\ UNCHANGED <<ovars, cvars,
                 dest, text_chunks, temp_files, idx, cidx, pending,
                 calls, segments, failed_at, start0, dest_written,
                 unlink_tried>>

\* lines 147-154: split and choose the path
GP_Split ==
  /\ rpc = "split"
  /\ text_chunks' = SplitTextIntoChunks(text, maxChunkSize)
  /\ IF Len(text_chunks') = 1
       THEN /\ rpc' = "single"
            /\ idx' = idx
       ELSE /\ rpc' = "mkstemp"
            /\ idx' = 1
  /\ UNCHANGED <<ovars, cvars,
                 dir_exists, dest, temp_files, cidx, pending, result,
                 calls, segments, failed_at, start0, dest_written,
                 unlink_tried, raised>>

\* lines 164-171 and 186-197: _generate_single_chunk(text, output_path)
Single_Synth ==
  /\ rpc = "single"
  /\ calls' = Append(calls, text)
  /\ \E k \in SynthOutcomes :
       /\ dest' = Streamed(k, 1, dest)
       /\ dest_written' = (dest_written \/ k \in {"full", "empty", "partial"})
       /\ segments' = IF k \in {"full", "empty"}
                        THEN Append(segments, Streamed(k, 1, dest).data)
                        ELSE segments
       /\ raised' = CASE k \in {"api_error", "other_error"} ->
                            raised \cup {"create"}
                       [] k = "partial" -> raised \cup {"stream_to_file"}
                       [] OTHER -> raised
       /\ IF k \in {"api_error", "other_error", "partial"}
            THEN /\ result' = IF k = "api_error" THEN "False"
                                ELSE Returned("raise")
                 /\ rpc' = "returned"
            ELSE /\ result' = result
                 /\ rpc' = "single_verify"
  /\ UNCHANGED <<ovars, cvars,
                 dir_exists, text_chunks, temp_files, idx, cidx,
                 pending, failed_at, start0, unlink_tried>>

\* lines 174-184
Single_Verify ==
  /\ rpc = "single_verify"
  /\ result' = PyBool(DestVerified(dest))
  /\ rpc' = "returned"
  /\ UNCHANGED <<ovars, cvars,
                 dir_exists, dest, text_chunks, temp_files, idx, cidx,
                 pending, calls, segments, failed_at, start0, dest_written,
                 unlink_tried, raised>>

\* lines 205-211: mkstemp creates an empty file, or raises
Multi_Mkstemp ==
  /\ rpc = "mkstemp"
  /\ \E ok \in BOOLEAN :
       IF ok
         THEN /\ temp_files' = Append(temp_files, File(<<>>))
              /\ rpc' = "multi_synth"
              /\ pending' = pending
              /\ cidx' = cidx
              /\ raised' = raised
         ELSE /\ temp_files' = temp_files
              /\ rpc' = "cleanup"
              /\ pending' = "raise"
              /\ cidx' = 1
              /\ raised' = raised \cup {"mkstemp"}
  /\ UNCHANGED <<ovars, cvars,
                 dir_exists, dest, text_chunks, idx, result, calls,
                 segments, failed_at, start0, dest_written, unlink_tried>>

\* lines 213-222 and 229-231: synthesis of chunk i into its temp file
Multi_Synth ==
  /\ rpc = "multi_synth"
  /\ calls' = Append(calls, text_chunks[idx])
  /\ \E k \in SynthOutcomes \ {"noop"} :
       /\ temp_files' =
            [temp_files EXCEPT ![idx] = Streamed(k, idx, temp_files[idx])]
       /\ segments' = IF k \in {"full", "empty"}
                        THEN Append(segments, Streamed(k, idx, Absent).data)
                        ELSE segments
       /\ failed_at' = IF failed_at = 0 /\ k # "full" THEN idx ELSE failed_at
       /\ raised' = CASE k \in {"api_error", "other_error"} ->
                            raised \cup {"create"}
                       [] k = "partial" -> raised \cup {"stream_to_file"}
                       [] OTHER -> raised
       /\ IF k \in {"api_error", "other_error", "partial"}
            THEN /\ pending' = IF k = "api_error" THEN "False" ELSE "raise"
                 /\ rpc' = "cleanup"
                 /\ cidx' = 1
            ELSE /\ pending' = pending
                 /\ rpc' = "multi_verify"
                 /\ cidx' = cidx
  /\ UNCHANGED <<ovars, cvars,
                 dir_exists, dest, text_chunks, idx, result, start0,
                 dest_written, unlink_tried>>

\* lines 224-227 and the loop header of line 205
Multi_VerifyChunk ==
  /\ rpc = "multi_verify"
  /\ IF ~ChunkVerified(temp_files[idx])
       THEN /\ pending' = "False"
            /\ rpc' = "cleanup"
            /\ cidx' = 1
            /\ idx' = idx
       ELSE /\ pending' = pending
            /\ cidx' = cidx
            /\ idx' = idx + 1
            /\ rpc' = IF idx = Len(text_chunks) THEN "combine" ELSE "mkstemp"
  /\ UNCHANGED <<ovars, cvars,
                 dir_exists, dest, text_chunks, temp_files, result,
                 calls, segments, failed_at, start0, dest_written,
                 unlink_tried, raised>>

\* lines 109-121 and 234, 249-250: _combine_audio_files(temp_files, output).
\* fail = 0: open(output_path, 'wb') raises; fail = j: reading the j-th file
\* raises after the earlier ones were appended; fail = n + 1: no failure
Multi_Combine ==
  /\ rpc = "combine"
  /\ \E fail \in 0..(Len(temp_files) + 1) :
       /\ dest' = IF fail = 0 THEN dest
                  ELSE File(Combined(SubSeq(temp_files, 1, fail - 1)))
       /\ dest_written' = (dest_written \/ fail > 0)
       /\ raised' = IF fail <= Len(temp_files)
                      THEN raised \cup {"combine"} ELSE raised
       /\ IF fail <= Len(temp_files)
            THEN /\ pending' = "False"
                 /\ rpc' = "cleanup"
                 /\ cidx' = 1
            ELSE /\ pending' = pending
                 /\ rpc' = "verify_final"
                 /\ cidx' = cidx
  /\ UNCHANGED <<ovars, cvars,
                 dir_exists, text_chunks, temp_files, idx, result,
                 calls, segments, failed_at, start0, unlink_tried>>

\* lines 236-248
Multi_VerifyFinal ==
  /\ rpc = "verify_final"
  /\ pending' = PyBool(DestVerified(dest))
  /\ rpc' = "cleanup"
  /\ cidx' = 1
  /\ UNCHANGED <<ovars, cvars,
                 dir_exists, dest, text_chunks, temp_files, idx,
                 result, calls, segments, failed_at, start0, dest_written,
                 unlink_tried, raised>>

\* lines 252-259: one iteration of the finally loop
Multi_Cleanup ==
  /\ rpc = "cleanup"
  /\ cidx <= Len(temp_files)
  /\ IF ~temp_files[cidx].exists
       THEN /\ UNCHANGED <<temp_files, unlink_tried, pending, raised>>
            /\ cidx' = cidx + 1
       ELSE /\ unlink_tried' = unlink_tried \cup {cidx}
            /\ \E unlinked \in BOOLEAN :
                 /\ temp_files' = IF unlinked
                                    THEN [temp_files EXCEPT ![cidx] = Absent]
                                    ELSE temp_files
                 /\ pending' = AfterCleanup(pending, ~unlinked)
                 /\ raised' = IF unlinked THEN raised
                                ELSE raised \cup {"unlink"}
                 /\ cidx' = IF AfterCleanup(pending, ~unlinked) = pending
                              THEN cidx + 1
                              ELSE Len(temp_files) + 1
  /\ UNCHANGED <<ovars, cvars,
                 rpc, dir_exists, dest, text_chunks, idx, result,
                 calls, segments, failed_at, start0, dest_written>>

\* the finally block is done: the return of line 154, or lines 156-158
Multi_Return ==
  /\ rpc = "cleanup"
  /\ cidx > Len(temp_files)
  /\ result' = Returned(pending)
  /\ rpc' = "returned"
  /\ UNCHANGED <<ovars, cvars,
                 dir_exists, dest, text_chunks, temp_files, idx, cidx,
                 pending, calls, segments, failed_at, start0, dest_written,
                 unlink_tried, raised>>

Next ==
  \/ GP_Entry
  \/ GP_Mkdir
  \/ GP_Split
  \/ Single_Synth
  \/ Single_Verify
  \/ Multi_Mkstemp
  \/ Multi_Synth
  \/ Multi_VerifyChunk
  \/ Multi_Combine
  \/ Multi_VerifyFinal
  \/ Multi_Cleanup
  \/ Multi_Return

Init == RenderInit

Spec == Init /\ [][Next]_vars

(***************************************************************************)
(* The keyword matcher of src/hn_digest/content_filter.py and the tables   *)
(* of src/hn_digest/config.py.  A keyword, a domain, a title and a URL are *)
(* sequences of one-character strings; a label of matched_keywords is a    *)
(* string.                                                                 *)
(***************************************************************************)
\* Config.AI_KEYWORDS (config.py lines 41-49), as the labels
AI_KEYWORDS ==
  <<"ai", "artificial intelligence", "machine learning", "ml", "neural",
    "deep learning", "gpt", "llm", "large language model", "openai",
    "anthropic", "claude", "chatgpt", "transformer", "bert", "nlp",
    "natural language processing", "computer vision",
    "reinforcement learning", "supervised learning",
    "unsupervised learning", "automation", "robot", "algorithm",
    "data science", "tensorflow", "pytorch", "keras", "generative",
    "diffusion", "stable diffusion", "midjourney", "dall-e">>

\* the characters of AI_KEYWORDS[i]
KEYWORD_CHARS ==
  <<
    <<"a", "i">>,
    <<"a", "r", "t", "i", "f", "i", "c", "i", "a", "l", " ", "i", "n", "t",
      "e", "l", "l", "i", "g", "e", "n", "c", "e">>,
    <<"m", "a", "c", "h", "i", "n", "e", " ", "l", "e", "a", "r", "n", "i",
      "n", "g">>,
    <<"m", "l">>,
    <<"n", "e", "u", "r", "a", "l">>,
    <<"d", "e", "e", "p", " ", "l", "e", "a", "r", "n", "i", "n", "g">>,
    <<"g", "p", "t">>,
    <<"l", "l", "m">>,
    <<"l", "a", "r", "g", "e", " ", "l", "a", "n", "g", "u", "a", "g", "e",
      " ", "m", "o", "d", "e", "l">>,
    <<"o", "p", "e", "n", "a", "i">>,
    <<"a", "n", "t", "h", "r", "o", "p", "i", "c">>,
    <<"c", "l", "a", "u", "d", "e">>,
    <<"c", "h", "a", "t", "g", "p", "t">>,
    <<"t", "r", "a", "n", "s", "f", "o", "r", "m", "e", "r">>,
    <<"b", "e", "r", "t">>,
    <<"n", "l", "p">>,
    <<"n", "a", "t", "u", "r", "a", "l", " ", "l", "a", "n", "g", "u", "a",
      "g", "e", " ", "p", "r", "o", "c", "e", "s", "s", "i", "n", "g">>,
    <<"c", "o", "m", "p", "u", "t", "e", "r", " ", "v", "i", "s", "i", "o",
      "n">>,
    <<"r", "e", "i", "n", "f", "o", "r", "c", "e", "m", "e", "n", "t", " ",
      "l", "e", "a", "r", "n", "i", "n", "g">>,
    <<"s", "u", "p", "e", "r", "v", "i", "s", "e", "d", " ", "l", "e", "a",
      "r", "n", "i", "n", "g">>,
    <<"u", "n", "s", "u", "p", "e", "r", "v", "i", "s", "e", "d", " ", "l",
      "e", "a", "r", "n", "i", "n", "g">>,
    <<"a", "u", "t", "o", "m", "a", "t", "i", "o", "n">>,
    <<"r", "o", "b", "o", "t">>,
    <<"a", "l", "g", "o", "r", "i", "t", "h", "m">>,
    <<"d", "a", "t", "a", " ", "s", "c", "i", "e", "n", "c", "e">>,
    <<"t", "e", "n", "s", "o", "r", "f", "l", "o", "w">>,
    <<"p", "y", "t", "o", "r", "c", "h">>,
    <<"k", "e", "r", "a", "s">>,
    <<"g", "e", "n", "e", "r", "a", "t", "i", "v", "e">>,
    <<"d", "i", "f", "f", "u", "s", "i", "o", "n">>,
    <<"s", "t", "a", "b", "l", "e", " ", "d", "i", "f", "f", "u", "s", "i",
      "o", "n">>,
    <<"m", "i", "d", "j", "o", "u", "r", "n", "e", "y">>,
    <<"d", "a", "l", "l", "-", "e">>
  >>

\* ai_domains (line 50), as the characters of each domain
AI_DOMAINS ==
  <<
    <<"o", "p", "e", "n", "a", "i", ".", "c", "o", "m">>,
    <<"a", "n", "t", "h", "r", "o", "p", "i", "c", ".", "c", "o", "m">>,
    <<"d", "e", "e", "p", "m", "i", "n", "d", ".", "c", "o", "m">>,
    <<"r", "e", "s", "e", "a", "r", "c", "h", ".", "g", "o", "o", "g", "l",
      "e">>,
    <<"a", "r", "x", "i", "v", ".", "o", "r", "g">>
  >>

\* f"domain:{domain}" (line 54) for AI_DOMAINS[i]
DOMAIN_LABELS ==
  <<"domain:openai.com", "domain:anthropic.com", "domain:deepmind.com",
    "domain:research.google", "domain:arxiv.org">>

\* str.lower() and re.IGNORECASE on one character
LowerChar(c) ==
  CASE c = "A" -> "a"
    [] c = "B" -> "b"
    [] c = "C" -> "c"
    [] c = "D" -> "d"
    [] c = "E" -> "e"
    [] c = "F" -> "f"
    [] c = "G" -> "g"
    [] c = "H" -> "h"
    [] c = "I" -> "i"
    [] c = "J" -> "j"
    [] c = "K" -> "k"
    [] c = "L" -> "l"
    [] c = "M" -> "m"
    [] c = "N" -> "n"
    [] c = "O" -> "o"
    [] c = "P" -> "p"
    [] c = "Q" -> "q"
    [] c = "R" -> "r"
    [] c = "S" -> "s"
    [] c = "T" -> "t"
    [] c = "U" -> "u"
    [] c = "V" -> "v"
    [] c = "W" -> "w"
    [] c = "X" -> "x"
    [] c = "Y" -> "y"
    [] c = "Z" -> "z"
    [] OTHER -> c

\* str.lower()
LowerAll(s) == [i \in 1..Len(s) |-> LowerChar(s[i])]

\* the characters \w matches, lower-cased
WordChars ==
  {"a", "b", "c", "d", "e", "f", "g", "h", "i", "j", "k", "l", "m", "n",
    "o", "p", "q", "r", "s", "t", "u", "v", "w", "x", "y", "z", "0", "1",
    "2", "3", "4", "5", "6", "7", "8", "9", "_"}

\* the characters \s matches
SpaceChars == {" ", "\t", "\n"}

\* the characters [\s\-_] matches
SepChars == SpaceChars \cup {"-", "_"}

(***************************************************************************)
(* The compiled patterns (lines 12-27).  A pattern is a set of             *)
(* alternatives, an alternative a sequence of elements:                    *)
(*   lit     one character, compared case-insensitively                    *)
(*   optsep  [\s\-_]?                                                      *)
(*   optdot  \.?                                                           *)
(*   spaces  \s+                                                           *)
(* Every pattern is anchored by \b at both ends.  pattern.search(title)    *)
(* only asks whether some match exists, so matching is the set of          *)
(* positions an alternative can end at.                                    *)
(***************************************************************************)
Lit(c) == [kind |-> "lit", ch |-> c]

OptSep == [kind |-> "optsep", ch |-> ""]

OptDot == [kind |-> "optdot", ch |-> ""]

Spaces == [kind |-> "spaces", ch |-> ""]

\* line 19: \b(?:ai|a\.?i\.?|a\s+i)\b
AiPattern ==
  { <<Lit("a"), Lit("i")>>,
    <<Lit("a"), OptDot, Lit("i"), OptDot>>,
    <<Lit("a"), Spaces, Lit("i")>> }

\* line 25: re.escape(keyword).replace(r'\ ', r'[\s\-_]?'); line 22 is the
\* same expression written out for 'machine learning'
GenericAlt(chars) ==
  [i \in 1..Len(chars) |->
     IF chars[i] = " " THEN OptSep ELSE Lit(LowerChar(chars[i]))]

\* self.keyword_patterns[i - 1]
KeywordPattern(i) ==
  IF AI_KEYWORDS[i] = "ai" THEN AiPattern
  ELSE {GenericAlt(KEYWORD_CHARS[i])}

\* is the i-th character of t (1-based) a word character
IsWordAt(t, i) == i \in 1..Len(t) /\ LowerChar(t[i]) \in WordChars

\* \b after the first p characters of t
WordBoundary(t, p) == IsWordAt(t, p) # IsWordAt(t, p + 1)

\* the positions where elements k.. of alt can end when they start after the
\* first p characters of t
RECURSIVE Ends(_, _, _, _)
Ends(alt, k, t, p) ==
  IF k > Len(alt) THEN {p}
  ELSE LET e == alt[k]
           more == p < Len(t)
       IN  CASE e.kind = "lit" ->
                  IF more /\ LowerChar(t[p + 1]) = e.ch
                    THEN Ends(alt, k + 1, t, p + 1) ELSE {}
             [] e.kind = "optsep" ->
                  Ends(alt, k + 1, t, p) \cup
                  (IF more /\ t[p + 1] \in SepChars
                     THEN Ends(alt, k + 1, t, p + 1) ELSE {})
             [] e.kind = "optdot" ->
                  Ends(alt, k + 1, t, p) \cup
                  (IF more /\ t[p + 1] = "."
                     THEN Ends(alt, k + 1, t, p + 1) ELSE {})
             [] e.kind = "spaces" ->
                  IF more /\ t[p + 1] \in SpaceChars
                    THEN Ends(alt, k + 1, t, p + 1) \cup Ends(alt, k, t, p + 1)
                    ELSE {}

\* pattern.search(t) is not None
Search(pattern, t) ==
  \E alt \in pattern : \E p \in 0..Len(t) :
     /\ WordBoundary(t, p)
     /\ \E q \in Ends(alt, 1, t, p) : WordBoundary(t, q)

\* sub in s
Contains(s, sub) ==
  \E i \in 0..(Len(s) - Len(sub)) : SubSeq(s, i + 1, i + Len(sub)) = sub

(***************************************************************************)
(* _calculate_ai_score (lines 29-57).                                      *)
(***************************************************************************)
CoreKeywords == {"ai", "artificial intelligence", "machine learning", "ml"}

BrandKeywords == {"gpt", "llm", "openai", "anthropic", "claude", "chatgpt"}

\* mutant: the two keyword lists are swapped
KeywordWeight_Swapped(keyword) ==
  IF keyword \in BrandKeywords THEN 3
  ELSE IF keyword \in CoreKeywords THEN 4
  ELSE 2

\* lines 41-46
KeywordWeight(keyword) ==
  IF keyword \in CoreKeywords THEN 3
  ELSE IF keyword \in BrandKeywords THEN 4
  ELSE 2

\* lines 36-46: the loop over the patterns from index i on
RECURSIVE ScoreKeywords(_, _, _)
ScoreKeywords(t, i, acc) ==
  IF i > Len(AI_KEYWORDS) THEN acc
  ELSE ScoreKeywords(t, i + 1,
         IF Search(KeywordPattern(i), t)
           THEN [score |-> acc.score + KeywordWeight(AI_KEYWORDS[i]),
                 matched |-> Append(acc.matched, AI_KEYWORDS[i])]
           ELSE acc)

\* mutant: the loop over the domains has no break
RECURSIVE DomainBonus_NoBreak(_, _, _)
DomainBonus_NoBreak(url_lower, i, acc) ==
  IF i > Len(AI_DOMAINS) THEN acc
  ELSE DomainBonus_NoBreak(url_lower, i + 1,
         IF Contains(url_lower, AI_DOMAINS[i])
           THEN [score |-> acc.score + 2,
                 matched |-> Append(acc.matched, DOMAIN_LABELS[i])]
           ELSE acc)

\* lines 51-55: the loop over ai_domains from index i on
RECURSIVE DomainBonus(_, _, _)
DomainBonus(url_lower, i, acc) ==
  IF i > Len(AI_DOMAINS) THEN acc
  ELSE IF Contains(url_lower, AI_DOMAINS[i])
    THEN [score |-> acc.score + 2,
          matched |-> Append(acc.matched, DOMAIN_LABELS[i])]
    ELSE DomainBonus(url_lower, i + 1, acc)

\* the pair (score, matched_keywords) the function returns
CalculateAiScore(t, u) ==
  DomainBonus(LowerAll(u), 1,
              ScoreKeywords(t, 1, [score |-> 0, matched |-> <<>>]))

(***************************************************************************)
(* One _calculate_ai_score call on a generated title and URL.              *)
(***************************************************************************)
TitleTokens ==
  { <<"a", "i">>, <<"A", ".", "I", ".">>, <<"a">>, <<" ", "i">>, <<"x">>,
    <<"g", "p", "t">>, <<"r", "o", "b", "o", "t">>,
    <<"m", "a", "c", "h", "i", "n", "e">>,
    <<"-", "L", "e", "a", "r", "n", "i", "n", "g">> }

Titles ==
  { Flatten(ts) :
      ts \in UNION { [1..n -> TitleTokens] : n \in 0..MaxTitleTokens } }

UrlTokens ==
  { <<"h", "t", "t", "p", "s", ":", "/", "/", "e", "x", ".", "i", "o", "/">>,
    <<"h", "t", "t", "p", "s", ":", "/", "/",
      "O", "p", "e", "n", "A", "I", ".", "c", "o", "m", "/">>,
    <<"a", "r", "x", "i", "v", ".", "o", "r", "g">> }

Urls ==
  { Flatten(ts) :
      ts \in UNION { [1..n -> UrlTokens] : n \in 0..MaxUrlTokens } }

ScoreInit ==
  /\ title \in Titles
  /\ url \in Urls
  /\ score_out = -1
  /\ matched_out = <<>>
  /\ spc = "call"
  /\ ChunkIdle
  /\ RenderIdle
  /\ FilterIdle
  /\ NameIdle
  /\ XIdle

\* the call and its return
ScoreCall ==
  /\ spc = "call"
  /\ LET r == CalculateAiScore(title, url)
     IN  /\ score_out' = r.score
         /\ matched_out' = r.matched
  /\ spc' = "done"
  /\ UNCHANGED <<title, url, cvars, rvars, fvars, nvars, xvars>>

ScoreNext == ScoreCall

SpecScore == ScoreInit /\ [][ScoreNext]_vars

(***************************************************************************)
(* filter_and_score_stories (content_filter.py, lines 74-102) and          *)
(* is_ai_related (lines 59-72).  A dict is a record whose domain is the    *)
(* set of keys the dict has.                                               *)
(***************************************************************************)

\* d.get(k, default)
Get(d, k, default) == IF k \in DOMAIN d THEN d[k] ELSE default

\* mutant: a score of 0 is admitted too
IsAiRelated_NonNegative(story) ==
  CalculateAiScore(Get(story, "title", <<>>), Get(story, "url", <<>>)).score
    >= 0

\* is_ai_related(story), lines 61-72
IsAiRelated(story) ==
  CalculateAiScore(Get(story, "title", <<>>), Get(story, "url", <<>>)).score
    > 0

\* mutant: no copy is made, story_with_score is the input dict itself
DictCopy_Alias(h, id) == [heap |-> h, ref |-> id]

\* story.copy(), line 85: a new dict with the same keys and values
DictCopy(h, id) == [heap |-> Append(h, h[id]), ref |-> Len(h) + 1]

\* lines 80-90: the keys written by story_with_score.update({...})
Scored(story) ==
  LET r == CalculateAiScore(Get(story, "title", <<>>),
                            Get(story, "url", <<>>))
  IN  [ai_score |-> r.score,
       matched_keywords |-> r.matched,
       combined_score |-> Get(story, "score", 0) + r.score]

\* the key of the sort, line 95
SortKey(h, id) == h[id].combined_score

\* mutant: id is put in front of the elements with an equal key
InsertDesc_Unstable(h, ids, id) ==
  LET before == { j \in 1..Len(ids) : SortKey(h, ids[j]) > SortKey(h, id) }
      n == Cardinality(before)
  IN  SubSeq(ids, 1, n) \o <<id>> \o SubSeq(ids, n + 1, Len(ids))

\* ids with id put behind the last element whose key is not smaller
InsertDesc(h, ids, id) ==
  LET before == { j \in 1..Len(ids) : SortKey(h, ids[j]) >= SortKey(h, id) }
      n == Cardinality(before)
  IN  SubSeq(ids, 1, n) \o <<id>> \o SubSeq(ids, n + 1, Len(ids))

\* mutant: reverse=True is dropped
RECURSIVE SortDesc_Ascending(_, _)
SortDesc_Ascending(h, ids) ==
  IF ids = <<>> THEN <<>>
  ELSE LET rest == SortDesc_Ascending(h, SubSeq(ids, 1, Len(ids) - 1))
           id == ids[Len(ids)]
           n == Cardinality({ j \in 1..Len(rest) :
                               SortKey(h, rest[j]) <= SortKey(h, id) })
       IN  SubSeq(rest, 1, n) \o <<id>> \o SubSeq(rest, n + 1, Len(rest))

\* ai_stories.sort(key=..., reverse=True), line 95: stable, largest first
RECURSIVE SortDesc(_, _)
SortDesc(h, ids) ==
  IF ids = <<>> THEN <<>>
  ELSE InsertDesc(h, SortDesc(h, SubSeq(ids, 1, Len(ids) - 1)),
                  ids[Len(ids)])

\* mutant: the slice is dropped
Truncate_None(ids, n) == ids

\* ai_stories[:Config.MAX_ARTICLES], line 98
Truncate(ids, n) == Prefix(ids, n)

\* the dicts the input list is drawn from
StoryItems ==
  { [title |-> <<"x">>, score |-> 5],
    [title |-> <<"a", "i">>],
    [title |-> <<"a", "i">>, url |-> <<"e", "x", ".", "i", "o">>,
     score |-> 1],
    [title |-> <<"g", "p", "t">>, score |-> 0],
    [url |-> <<"O", "p", "e", "n", "A", "I", ".", "c", "o", "m">>,
     score |-> 1],
    [title |-> <<"g", "p", "t">>,
     url |-> <<"O", "p", "e", "n", "A", "I", ".", "c", "o", "m">>,
     score |-> 2] }

FilterInit ==
  /\ heap \in UNION { [1..n -> StoryItems] : n \in 0..MaxStories }
  /\ stories = [i \in 1..Len(heap) |-> i]
  /\ ai_stories = <<>>
  /\ fidx = 1
  /\ max_articles \in 1..MaxArticles
  /\ filtered = <<>>
  /\ fpc = "loop"
  /\ heap0 = heap
  /\ stories0 = stories
  /\ ChunkIdle
  /\ RenderIdle
  /\ ScoreIdle
  /\ NameIdle
  /\ XIdle

\* lines 78-79: the story is not AI-related
Filter_Skip ==
  /\ fpc = "loop"
  /\ fidx <= Len(stories)
  /\ ~IsAiRelated(heap[stories[fidx]])
  /\ fidx' = fidx + 1
  /\ UNCHANGED <<heap, stories, ai_stories, max_articles, filtered, fpc,
                 heap0, stories0, cvars, rvars, svars, nvars, xvars>>

\* lines 78-92: the story is AI-related
Filter_Admit ==
  /\ fpc = "loop"
  /\ fidx <= Len(stories)
  /\ IsAiRelated(heap[stories[fidx]])
  /\ LET story == heap[stories[fidx]]
         c == DictCopy(heap, stories[fidx])
     IN  /\ heap' = [c.heap EXCEPT ![c.ref] = Scored(story) @@ c.heap[c.ref]]
         /\ ai_stories' = Append(ai_stories, c.ref)
  /\ fidx' = fidx + 1
  /\ UNCHANGED <<stories, max_articles, filtered, fpc, heap0, stories0,
                 cvars, rvars, svars, nvars, xvars>>

\* lines 94-102: sort, truncate, return
Filter_Return ==
  /\ fpc = "loop"
  /\ fidx > Len(stories)
  /\ ai_stories' = Truncate(SortDesc(heap, ai_stories), max_articles)
  /\ filtered' = ai_stories'
  /\ fpc' = "done"
  /\ UNCHANGED <<heap, stories, fidx, max_articles, heap0, stories0,
                 cvars, rvars, svars, nvars, xvars>>

FilterNext == Filter_Skip \/ Filter_Admit \/ Filter_Return

SpecFilter == FilterInit /\ [][FilterNext]_vars


(***************************************************************************)
(* get_podcast_filename (podcast_generator.py, lines 261-276).             *)
(***************************************************************************)
TXT == <<".", "t", "x", "t">>

MP3 == <<".", "m", "p", "3">>

\* s.endswith(suffix)
EndsWith(s, suffix) ==
  /\ Len(s) >= Len(suffix)
  /\ SubSeq(s, Len(s) - Len(suffix) + 1, Len(s)) = suffix

\* s.replace(old, new): every non-overlapping occurrence, from the left
RECURSIVE Replace(_, _, _)
Replace(s, old, new) ==
  IF Len(s) < Len(old) THEN s
  ELSE IF SubSeq(s, 1, Len(old)) = old
    THEN new \o Replace(Suffix(s, Len(old)), old, new)
    ELSE <<s[1]>> \o Replace(Suffix(s, 1), old, new)

\* lines 273-276
GetPodcastFilename(name) ==
  IF EndsWith(name, TXT) THEN Replace(name, TXT, MP3) ELSE name \o MP3

NameTokens ==
  { <<"d">>, <<".">>, <<"t", "x", "t">>, <<".", "t", "x", "t">>,
    <<".", "l", "o", "g">>, <<"/">> }

Names ==
  { Flatten(ts) :
      ts \in UNION { [1..n -> NameTokens] : n \in 0..MaxNameTokens } }

NameInit ==
  /\ digest_filename \in Names
  /\ podcast_filename = <<>>
  /\ npc = "call"
  /\ ChunkIdle
  /\ RenderIdle
  /\ ScoreIdle
  /\ FilterIdle
  /\ XIdle

\* the call and its return
NameCall ==
  /\ npc = "call"
  /\ podcast_filename' = GetPodcastFilename(digest_filename)
  /\ npc' = "done"
  /\ UNCHANGED <<digest_filename, cvars, rvars, svars, fvars, xvars>>

NameNext == NameCall

SpecName == NameInit /\ [][NameNext]_vars

(***************************************************************************)
(* PodcastGenerator.__init__ (podcast_generator.py, lines 27-45), followed *)
(* by one generate_podcast call on the constructed object.                 *)
(***************************************************************************)
\* the value None
PyNone == "<None>"

\* line 22
VALID_VOICES == <<"alloy", "echo", "fable", "onyx", "nova", "shimmer">>

\* bool(api_key) for None or a str, line 38
Truthy(k) == k # PyNone /\ k # ""

\* mutant: the voice is not checked
VoiceAccepted_Any(v) == TRUE

\* voice in self.VALID_VOICES, line 41
VoiceAccepted(v) == \E i \in 1..Len(VALID_VOICES) : VALID_VOICES[i] = v

ApiKeys == {PyNone, "", "test-api-key"}

Voices ==
  { VALID_VOICES[i] : i \in 1..Len(VALID_VOICES) } \cup
  {"invalid-voice", "Fable", ""}

CtorInit ==
  /\ api_key \in ApiKeys
  /\ voice \in Voices
  /\ self_voice = ""
  /\ ctor_error = ""
  /\ kpc = "new"
  /\ ChunkIdle
  /\ RenderIdle
  /\ ScoreIdle
  /\ FilterIdle
  /\ NameIdle
  /\ EmailIdle
  /\ FetchIdle
  /\ DigestIdle
  /\ SummIdle

\* lines 38-45
Ctor_Call ==
  /\ kpc = "new"
  /\ IF ~Truthy(api_key)
       THEN /\ kpc' = "raised"
            /\ ctor_error' = "key"
            /\ self_voice' = self_voice
       ELSE IF ~VoiceAccepted(voice)
         THEN /\ kpc' = "raised"
              /\ ctor_error' = "voice"
              /\ self_voice' = self_voice
         ELSE /\ kpc' = "constructed"
              /\ ctor_error' = ctor_error
              /\ self_voice' = voice
  /\ UNCHANGED <<api_key, voice, cvars, rvars, svars, fvars, nvars, mvars,
                 dvars,
                 avars,
                 evars>>

\* generator.generate_podcast(text, output_path) on the constructed object
Ctor_Generate ==
  /\ kpc = "constructed"
  /\ rpc = "idle"
  /\ text' \in RenderTexts
  /\ maxChunkSize' \in RenderSizes
  /\ rpc' = "start"
  /\ dest0' \in {Absent, File(<<>>), File(<< <<0, "old">> >>)}
  /\ dest' = dest0'
  /\ dir_exists' \in IF dest0' = Absent THEN BOOLEAN ELSE {TRUE}
  /\ dir_exists0' = dir_exists'
  /\ UNCHANGED <<remaining_text, chunks, rules, cpc, text_chunks, temp_files,
                 idx, cidx, pending, result, calls, segments, failed_at,
                 dest_written, unlink_tried, raised, ovars>>

CtorNext == Ctor_Call \/ Ctor_Generate \/ Next

SpecCtor == CtorInit /\ [][CtorNext]_vars

(***************************************************************************)
(* EmailSender.send_digest_email (email_sender.py, lines 33-83).           *)
(***************************************************************************)
\* what one pass through the with block of lines 64-66 can do: complete, or
\* raise in SMTP_SSL(), login(), sendmail() or in the QUIT of __exit__
SmtpOutcomes == {"sent", "connect", "login", "sendmail", "quit"}

RetryDelays == {1, 5}

\* mutant: the sleep is not skipped after the last attempt
ShouldSleep_Always(a, n) == TRUE

\* line 76: attempt < max_retries - 1
ShouldSleep(a, n) == a < n - 1

EmailInit ==
  /\ max_retries \in 0..MaxRetries
  /\ retry_delay \in RetryDelays
  /\ attempt = 0
  /\ last_error = ""
  /\ eresult = "none"
  /\ epc = "loop"
  /\ etrace = <<>>
  /\ delays = <<>>
  /\ ChunkIdle
  /\ RenderIdle
  /\ ScoreIdle
  /\ FilterIdle
  /\ NameIdle
  /\ CtorIdle
  /\ FetchIdle
  /\ DigestIdle
  /\ SummIdle

\* lines 62-69: one attempt; success returns True
Email_Try ==
  /\ epc = "loop"
  /\ attempt < max_retries
  /\ \E o \in SmtpOutcomes :
       /\ etrace' = Append(etrace, o)
       /\ IF o = "sent"
            THEN /\ eresult' = "True"
                 /\ epc' = "returned"
                 /\ last_error' = last_error
            ELSE /\ eresult' = eresult
                 /\ epc' = "except"
                 /\ last_error' = o
  /\ UNCHANGED <<max_retries, retry_delay, attempt, delays,
                 cvars, rvars, svars, fvars, nvars, mvars, dvars, avars, kvars>>

\* lines 71-80: the handler, then the next value of the loop variable
Email_Except ==
  /\ epc = "except"
  /\ IF ShouldSleep(attempt, max_retries)
       THEN /\ delays' = Append(delays, retry_delay)
            /\ etrace' = Append(etrace, "sleep")
            /\ retry_delay' = 2 * retry_delay
       ELSE UNCHANGED <<delays, etrace, retry_delay>>
  /\ attempt' = attempt + 1
  /\ epc' = "loop"
  /\ UNCHANGED <<max_retries, last_error, eresult,
                 cvars, rvars, svars, fvars, nvars, mvars, dvars, avars, kvars>>

\* lines 82-83: the loop is exhausted
Email_GiveUp ==
  /\ epc = "loop"
  /\ attempt >= max_retries
  /\ eresult' = "False"
  /\ epc' = "returned"
  /\ UNCHANGED <<max_retries, retry_delay, attempt, last_error, etrace,
                 delays, cvars, rvars, svars, fvars, nvars, mvars, dvars, avars,
                 kvars>>

EmailNext == Email_Try \/ Email_Except \/ Email_GiveUp

SpecEmail == EmailInit /\ [][EmailNext]_vars

(***************************************************************************)
(* HNDigestApp.fetch_and_filter_stories (main.py, lines 33-64) over        *)
(* HNClient (hn_client.py, lines 19-34 and 59-106).                        *)
(***************************************************************************)
\* config.py, lines 33-35
MAX_ARTICLES == 100

PAGES_TO_SCAN == 2

STORIES_PER_PAGE == 30

\* an Optional value: None, or a value
NoneValue == [is_none |-> TRUE]

Some(v) == [is_none |-> FALSE, value |-> v]

\* _make_api_request, hn_client.py lines 19-34: the JSON value, or None when
\* the request, the status check or the JSON parsing raised
MakeApiRequest(response) ==
  IF response.status = "ok" THEN Some(response.data) ELSE NoneValue

\* get_top_stories, hn_client.py lines 59-69
GetTopStories(response) ==
  LET data == MakeApiRequest(response)
  IN  IF data.is_none THEN <<>>
      ELSE Prefix(data.value, PAGES_TO_SCAN * STORIES_PER_PAGE)

\* get_story_details, hn_client.py lines 71-92: the dict, or None
GetStoryDetails(response) ==
  LET data == MakeApiRequest(response)
  IN  IF data.is_none THEN NoneValue
      ELSE IF Get(data.value, "type", PyNone) # "story" THEN NoneValue
      ELSE Some([title |-> Get(data.value, "title", <<>>),
                 url |-> Get(data.value, "url", <<>>),
                 score |-> Get(data.value, "score", 0)])

\* mutant: an empty list is not seen as empty
IsEmptyList_Never(l) == FALSE

\* not l, for a list l (main.py lines 39 and 47)
IsEmptyList(l) == l = <<>>

\* filter_and_score_stories as the list of dicts it returns
FilterAndScoreStories(ss, maxa) ==
  LET adm == SelectSeq(ss, IsAiRelated)
      scored == [i \in 1..Len(adm) |-> Scored(adm[i]) @@ adm[i]]
      order == Truncate(SortDesc(scored, [i \in 1..Len(adm) |-> i]), maxa)
  IN  [j \in 1..Len(order) |-> scored[order[j]]]

\* what the request for one item can give
ItemResponses ==
  { [status |-> "error"],
    [status |-> "ok",
     data |-> [type |-> "job", title |-> <<"a", "i">>, score |-> 1]],
    [status |-> "ok",
     data |-> [type |-> "story", title |-> <<"x">>, score |-> 5]],
    [status |-> "ok",
     data |-> [type |-> "story", title |-> <<"a", "i">>, score |-> 1]],
    [status |-> "ok",
     data |-> [type |-> "story", title |-> <<"g", "p", "t">>,
               url |-> <<"O", "p", "e", "n", "A", "I", ".", "c", "o", "m">>]] }

FetchInit ==
  /\ \E n \in 0..MaxIds :
       /\ top_response \in
            {[status |-> "error"],
             [status |-> "ok", data |-> [i \in 1..n |-> i]]}
       /\ item_responses \in [1..n -> ItemResponses]
  /\ story_ids = <<>>
  /\ batch = <<>>
  /\ bidx = 0
  /\ fetch_result = <<>>
  /\ apc = "top"
  /\ api_requests = <<>>
  /\ ranker_calls = <<>>
  /\ ChunkIdle
  /\ RenderIdle
  /\ ScoreIdle
  /\ FilterIdle
  /\ NameIdle
  /\ CtorIdle
  /\ EmailIdle
  /\ DigestIdle
  /\ SummIdle

\* main.py lines 38-41
Fetch_Top ==
  /\ apc = "top"
  /\ story_ids' = GetTopStories(top_response)
  /\ api_requests' = Append(api_requests, "top")
  /\ IF IsEmptyList(story_ids')
       THEN /\ apc' = "returned"
            /\ bidx' = bidx
       ELSE /\ apc' = "batch"
            /\ bidx' = 1
  /\ UNCHANGED <<top_response, item_responses, batch, fetch_result,
                 ranker_calls, cvars, rvars, svars, fvars, nvars, mvars,
                 dvars, kvars,
                 evars>>

\* hn_client.py lines 99-103: one pass of the loop of get_stories_batch
Fetch_Detail ==
  /\ apc = "batch"
  /\ bidx <= Len(story_ids)
  /\ LET story == GetStoryDetails(item_responses[story_ids[bidx]])
     IN  batch' = IF story.is_none THEN batch
                  ELSE Append(batch, story.value)
  /\ api_requests' = Append(api_requests, ToString(story_ids[bidx]))
  /\ bidx' = bidx + 1
  /\ UNCHANGED <<top_response, item_responses, story_ids, fetch_result, apc,
                 ranker_calls, cvars, rvars, svars, fvars, nvars, mvars,
                 dvars, kvars,
                 evars>>

\* main.py lines 46-64: the batch is complete
Fetch_Filter ==
  /\ apc = "batch"
  /\ bidx > Len(story_ids)
  /\ IF IsEmptyList(batch)
       THEN /\ fetch_result' = <<>>
            /\ ranker_calls' = ranker_calls
       ELSE /\ fetch_result' = FilterAndScoreStories(batch, MAX_ARTICLES)
            /\ ranker_calls' = Append(ranker_calls, batch)
  /\ apc' = "returned"
  /\ UNCHANGED <<top_response, item_responses, story_ids, batch, bidx,
                 api_requests, cvars, rvars, svars, fvars, nvars, mvars,
                 dvars, kvars,
                 evars>>

FetchNext == Fetch_Top \/ Fetch_Detail \/ Fetch_Filter

SpecFetch == FetchInit /\ [][FetchNext]_vars

(***************************************************************************)
(* run_full_digest_with_email (main.py lines 281-365) with its two failure *)
(* handlers.  Every call into another component is a step whose outcome    *)
(* the environment chooses: it returns, or it raises.                      *)
(***************************************************************************)
\* lines 287-308: no stories (the notification), a digest, or an exception
GenerateOutcomes == {"notice", "digest", "raise"}

\* send_digest_email and send_fallback_email: True, False, or an exception
SendResults == {"True", "False", "raise"}

\* mutant: a send that did not succeed is not handled
AfterSend_IgnoresFailure(success, gp) ==
  IF success = "True" /\ gp THEN "podcast" ELSE "returned"

\* lines 327-358: where the run goes after send_digest_email
AfterSend(success, gp) ==
  IF success = "True" THEN (IF gp THEN "podcast" ELSE "returned")
  ELSE "email_failure"

DigestInit ==
  /\ dry_run \in BOOLEAN
  /\ with_podcast \in BOOLEAN
  /\ email_sender \in {"None", "sender"}
  /\ email_content = ""
  /\ email_sent = FALSE
  /\ failure_message = ""
  /\ backup_writes = <<>>
  /\ critical_ran = FALSE
  /\ fallback_attempted = FALSE
  /\ fallback_sent = FALSE
  /\ error_log_writes = <<>>
  /\ podcast_calls = 0
  /\ dpc = "generate"
  /\ ChunkIdle
  /\ RenderIdle
  /\ ScoreIdle
  /\ FilterIdle
  /\ NameIdle
  /\ CtorIdle
  /\ EmailIdle
  /\ FetchIdle
  /\ SummIdle

\* lines 285-318: the digest is generated and formatted; a dry run prints it
Digest_Generate ==
  /\ dpc = "generate"
  /\ \E g \in GenerateOutcomes :
       IF g = "raise"
         THEN /\ dpc' = "critical"
              /\ failure_message' = "generation failed"
              /\ email_content' = email_content
         ELSE /\ dpc' = IF dry_run THEN "returned" ELSE "get_sender"
              /\ failure_message' = failure_message
              /\ email_content' = g
  /\ UNCHANGED <<dry_run, with_podcast, email_sender, email_sent,
                 backup_writes, critical_ran, fallback_attempted,
                 fallback_sent, error_log_writes, podcast_calls,
                 cvars, rvars, svars, fvars, nvars, mvars, kvars, evars,
                 avars>>

\* line 321 with _get_email_sender (lines 124-128): EmailSender() may raise
Digest_GetSender ==
  /\ dpc = "get_sender"
  /\ IF email_sender # "None"
       THEN /\ dpc' = "validate"
            /\ UNCHANGED <<email_sender, failure_message>>
       ELSE \E ok \in BOOLEAN :
              IF ok
                THEN /\ email_sender' = "sender"
                     /\ dpc' = "validate"
                     /\ failure_message' = failure_message
                ELSE /\ email_sender' = email_sender
                     /\ dpc' = "email_failure"
                     /\ failure_message' = "Email setup failed"
  /\ UNCHANGED <<dry_run, with_podcast, email_content, email_sent,
                 backup_writes, critical_ran, fallback_attempted,
                 fallback_sent, error_log_writes, podcast_calls,
                 cvars, rvars, svars, fvars, nvars, mvars, kvars, evars,
                 avars>>

\* lines 324-325 and 354-355: validate_configuration
Digest_Validate ==
  /\ dpc = "validate"
  /\ \E valid \in BOOLEAN :
       IF valid
         THEN /\ dpc' = "send"
              /\ failure_message' = failure_message
         ELSE /\ dpc' = "email_failure"
              /\ failure_message' = "Email setup failed"
  /\ UNCHANGED <<dry_run, with_podcast, email_sender, email_content,
                 email_sent, backup_writes, critical_ran,
                 fallback_attempted, fallback_sent, error_log_writes,
                 podcast_calls,
                 cvars, rvars, svars, fvars, nvars, mvars, kvars, evars,
                 avars>>

\* lines 327-330 and 351-357: send_digest_email
Digest_Send ==
  /\ dpc = "send"
  /\ \E success \in SendResults :
       /\ dpc' = AfterSend(success, with_podcast)
       /\ email_sent' = (success = "True")
       /\ failure_message' =
            IF success = "True" THEN failure_message
            ELSE IF success = "False"
              THEN "Email sending failed after retries"
            ELSE "Unexpected email error"
  /\ UNCHANGED <<dry_run, with_podcast, email_sender, email_content,
                 backup_writes, critical_ran, fallback_attempted,
                 fallback_sent, error_log_writes, podcast_calls,
                 cvars, rvars, svars, fvars, nvars, mvars, kvars, evars,
                 avars>>

\* lines 333-350: the digest file and the podcast after a sent email
Digest_PodcastAfterSend ==
  /\ dpc = "podcast"
  /\ \E written \in BOOLEAN :
       podcast_calls' = IF written THEN podcast_calls + 1
                        ELSE podcast_calls
  /\ dpc' = "returned"
  /\ UNCHANGED <<dry_run, with_podcast, email_sender, email_content,
                 email_sent, failure_message, backup_writes, critical_ran,
                 fallback_attempted, fallback_sent, error_log_writes,
                 cvars, rvars, svars, fvars, nvars, mvars, kvars, evars,
                 avars>>

\* _handle_email_failure, lines 166-197: the backup write, then the podcast
Digest_HandleEmailFailure ==
  /\ dpc = "email_failure"
  /\ \E written \in BOOLEAN :
       /\ backup_writes' = Append(backup_writes, written)
       /\ podcast_calls' = IF written /\ with_podcast
                             THEN podcast_calls + 1
                             ELSE podcast_calls
  /\ dpc' = "returned"
  /\ UNCHANGED <<dry_run, with_podcast, email_sender, email_content,
                 email_sent, failure_message, critical_ran,
                 fallback_attempted, fallback_sent, error_log_writes,
                 cvars, rvars, svars, fvars, nvars, mvars, kvars, evars,
                 avars>>

\* _handle_critical_failure, lines 199-213
Digest_HandleCriticalFailure ==
  /\ dpc = "critical"
  /\ critical_ran' = TRUE
  /\ \E ok \in BOOLEAN, success \in SendResults :
       IF email_sender = "None" /\ ~ok
         THEN /\ UNCHANGED <<email_sender, fallback_attempted,
                             fallback_sent>>
              /\ dpc' = "error_log"
         ELSE /\ email_sender' = "sender"
              /\ fallback_attempted' = TRUE
              /\ fallback_sent' = (success = "True")
              /\ dpc' = IF success = "True" THEN "returned"
                        ELSE "error_log"
  /\ UNCHANGED <<dry_run, with_podcast, email_content, email_sent,
                 failure_message, backup_writes, error_log_writes,
                 podcast_calls,
                 cvars, rvars, svars, fvars, nvars, mvars, kvars, evars,
                 avars>>

\* _save_error_log, lines 215-232
Digest_SaveErrorLog ==
  /\ dpc = "error_log"
  /\ \E written \in BOOLEAN :
       error_log_writes' = Append(error_log_writes, written)
  /\ dpc' = "returned"
  /\ UNCHANGED <<dry_run, with_podcast, email_sender, email_content,
                 email_sent, failure_message, backup_writes, critical_ran,
                 fallback_attempted, fallback_sent, podcast_calls,
                 cvars, rvars, svars, fvars, nvars, mvars, kvars, evars,
                 avars>>

DigestNext ==
  \/ Digest_Generate
  \/ Digest_GetSender
  \/ Digest_Validate
  \/ Digest_Send
  \/ Digest_PodcastAfterSend
  \/ Digest_HandleEmailFailure
  \/ Digest_HandleCriticalFailure
  \/ Digest_SaveErrorLog

SpecDigest == DigestInit /\ [][DigestNext]_vars

(***************************************************************************)
(* scrape_and_summarize_stories (main.py lines 70-122).  An entry of the   *)
(* returned dict is a record: [text |-> s] for a summary the summarizer    *)
(* returned, and the three arguments of create_fallback_summary for a      *)
(* fallback.                                                               *)
(***************************************************************************)
StoryTitles == {"A", "B"}

\* a story dict: without the key url, with an empty url, with a url
StoryKinds ==
  {[title |-> t] : t \in StoryTitles}
    \cup {[title |-> t, url |-> u] : t \in StoryTitles,
                                    u \in {"", "u1", "u2"}}

\* content of scrape_article: None, an empty text, a text
ScrapeContents == {PyNone, "", "text"}

\* summarize_article: None, an empty summary, a summary
SummarizeResults == {PyNone, "", "S1"}

\* create_fallback_summary, ai_summarizer.py lines 81-83
CreateFallbackSummary(t, u, reason) ==
  [title |-> t, reason |-> reason, url |-> u]

\* mutant: a story without a URL is handled like any other
NoUrl_Never(u) == FALSE

\* not url, line 86
NoUrl(u) == ~Truthy(u)

\* lines 93-117: the entry stored for a story
StoryEntry(t, u, content, summary) ==
  IF Truthy(content)
    THEN IF Truthy(summary) THEN [text |-> summary]
         ELSE CreateFallbackSummary(t, u, "AI summarization failed")
    ELSE CreateFallbackSummary(t, u, "content scraping failed")

SummInit ==
  /\ \E n \in 0..MaxDigestStories : story_list \in [1..n -> StoryKinds]
  /\ summaries = <<>>
  /\ midx = 1
  /\ outcomes = <<>>
  /\ collab_calls = <<>>
  /\ mpc = "loop"
  /\ ChunkIdle
  /\ RenderIdle
  /\ ScoreIdle
  /\ FilterIdle
  /\ NameIdle
  /\ CtorIdle
  /\ EmailIdle
  /\ FetchIdle
  /\ DigestIdle

\* lines 82-117: one pass of the loop
Summ_Story ==
  /\ mpc = "loop"
  /\ midx <= Len(story_list)
  /\ LET story == story_list[midx]
         u == Get(story, "url", "")
         t == Get(story, "title", "")
     IN  IF NoUrl(u)
           THEN /\ outcomes' =
                     Append(outcomes, [content |-> "-", summary |-> "-"])
                /\ UNCHANGED <<summaries, collab_calls>>
           ELSE \E content \in ScrapeContents :
                  \E summary \in IF Truthy(content) THEN SummarizeResults
                                  ELSE {"-"} :
                    /\ outcomes' =
                         Append(outcomes,
                                [content |-> content, summary |-> summary])
                    /\ summaries' =
                         (u :> StoryEntry(t, u, content, summary))
                           @@ summaries
                    /\ collab_calls' =
                         collab_calls
                           \o <<[fn |-> "scrape_article", url |-> u,
                                 title |-> t]>>
                           \o (IF Truthy(content)
                                 THEN <<[fn |-> "summarize_article",
                                         url |-> u, title |-> t]>>
                                 ELSE <<>>)
  /\ midx' = midx + 1
  /\ UNCHANGED <<story_list, mpc, cvars, rvars, svars, fvars, nvars, kvars,
                 evars, avars, dvars>>

\* line 121
Summ_Return ==
  /\ mpc = "loop"
  /\ midx > Len(story_list)
  /\ mpc' = "returned"
  /\ UNCHANGED <<story_list, summaries, midx, outcomes, collab_calls,
                 cvars, rvars, svars, fvars, nvars, kvars,
                 evars, avars, dvars>>

SummNext == Summ_Story \/ Summ_Return

SpecSumm == SummInit /\ [][SummNext]_vars

(***************************************************************************)
(* Properties of the chunker.                                              *)
(***************************************************************************)
\* C1: for every text and every ceiling >= 1, every chunk the function has
\* produced is at most maxChunkSize characters long, whichever rule cut it
C1_ChunkWithinCeiling ==
  \A i \in 1..Len(chunks) : Len(chunks[i]) <= maxChunkSize

\* a finished run whose chunks were cut by a sentence break and by a hard
\* cut, one of them exactly maxChunkSize long
C1_Witness ==
  /\ cpc = "done"
  /\ \E i \in 1..Len(rules) : rules[i] = "sentence"
  /\ \E i \in 1..Len(rules) : rules[i] = "hard"
  /\ \E i \in 1..Len(chunks) : Len(chunks[i]) = maxChunkSize

\* C2: the chunks of a finished run, concatenated in order, have exactly the
\* non-whitespace characters of the text, in the same order
C2_ContentPreserved ==
  cpc = "done" => NonWhitespace(Flatten(chunks)) = NonWhitespace(text)

\* a finished multi-chunk run that dropped whitespace at a split point
C2_Witness ==
  /\ cpc = "done"
  /\ Len(chunks) >= 3
  /\ Len(Flatten(chunks)) < Len(text)
  /\ NonWhitespace(text) # <<>>

\* C3: the function terminates: every loop iteration appends one non-empty
\* chunk and strictly shortens the remaining text, and the run reaches its
\* return
C3_Terminates ==
  /\ [][(cpc = "loop" /\ cpc' = "loop") =>
          /\ Len(remaining_text') < Len(remaining_text)
          /\ Len(chunks') = Len(chunks) + 1
          /\ chunks'[Len(chunks')] # <<>>]_vars
  /\ <>(cpc = "done")

\* a run that went through the loop at least three times and returned
C3_Witness ==
  /\ cpc = "done"
  /\ Len(chunks) >= 3
  /\ \E i \in 1..Len(rules) : rules[i] = "word"

(***************************************************************************)
(* Properties of the renderer.                                             *)
(***************************************************************************)
MultiPath == Len(text_chunks) > 1

\* C4: on the multi-segment path, once the synthesis of chunk k has failed
\* (the call raised, or its temp file is missing or empty) no further
\* synthesis call is made (chunk k is not retried, no later chunk is tried),
\* the destination is never opened or written, and the render returns False
C4_FailedChunkAborts ==
  (MultiPath /\ failed_at > 0) =>
     /\ Len(calls) = failed_at
     /\ ~dest_written
     /\ dest = dest0
     /\ rpc \in {"multi_verify", "cleanup", "returned"}
     /\ rpc = "returned" => result = "False"

\* a 3-chunk render whose second synthesis failed, with no destination before
C4_Witness ==
  /\ rpc = "returned"
  /\ Len(text_chunks) = 3
  /\ failed_at = 2
  /\ dest0 = Absent
  /\ Len(temp_files) = 2

\* C5: on every exit path of the multi-segment render, os.unlink has been
\* called on every temporary file that still exists when generate_podcast
\* returns, and no step of the cleanup changes the outcome that is returned
C5_CleanupOnEveryExit ==
  /\ []((MultiPath /\ rpc = "returned") =>
          \A i \in 1..Len(temp_files) :
             temp_files[i].exists => i \in unlink_tried)
  /\ [][(rpc = "cleanup" /\ rpc' = "cleanup") => pending' = pending]_vars
  /\ [][(rpc = "cleanup" /\ rpc' = "returned") =>
          result' = Returned(pending)]_vars

\* a successful 2-chunk render one of whose temp files could not be deleted
C5_Witness ==
  /\ rpc = "returned"
  /\ result = "True"
  /\ Len(temp_files) >= 2
  /\ \E i \in 1..Len(temp_files) : temp_files[i].exists /\ i \in unlink_tried

\* C6: when generate_podcast returns False, the destination holds no file
\* written during that render
C6_NoPartialDestination ==
  (rpc = "returned" /\ result = "False") => ~(dest_written /\ dest.exists)

\* C7: generate_podcast returns True only if the destination exists and is
\* not empty at that moment
C7_TrueOnlyIfDestNonEmpty ==
  (rpc = "returned" /\ result = "True") =>
     (dest.exists /\ Len(dest.data) > 0)

\* a multi-segment render that returned True
C7_Witness ==
  /\ rpc = "returned"
  /\ result = "True"
  /\ MultiPath
  /\ dest0 = File(<<>>)

\* C8: every text handed to a synthesis call is a chunk of this render's
\* split, one call per chunk, hence at most maxChunkSize characters long
C8_SynthInputsAreChunks ==
  /\ Len(calls) <= Len(text_chunks)
  /\ \A i \in 1..Len(calls) :
       /\ \E j \in 1..Len(text_chunks) : calls[i] = text_chunks[j]
       /\ Len(calls[i]) <= maxChunkSize

\* C9: on the multi-segment path the i-th synthesis call gets the i-th
\* chunk, and after a successful render the destination holds the per-chunk
\* segments appended in chunk order, each exactly once
C9_OrderPreserved ==
  /\ MultiPath => /\ Len(calls) <= Len(text_chunks)
                  /\ \A i \in 1..Len(calls) : calls[i] = text_chunks[i]
  /\ (MultiPath /\ rpc = "returned" /\ result = "True") =>
        /\ Len(segments) = Len(text_chunks)
        /\ \A i \in 1..Len(segments) : segments[i] = Audio(i)
        /\ dest = File(Flatten(segments))

\* a successful 3-chunk render
C9_Witness ==
  /\ rpc = "returned"
  /\ result = "True"
  /\ Len(text_chunks) = 3
  /\ Len(calls) = 3

\* C10: a text that is empty or all whitespace is rejected at once: False is
\* returned, with no synthesis call, no split and no file-system action
C10_BlankRejected ==
  NonWhitespace(text) = <<>> =>
     /\ rpc \in {"start", "returned"}
     /\ rpc = "returned" => result = "False"
     /\ calls = <<>>
     /\ text_chunks = <<>>
     /\ temp_files = <<>>
     /\ dest = dest0
     /\ ~dest_written

\* a whitespace-only text, rejected
C10_Witness ==
  /\ rpc = "returned"
  /\ text # <<>>
  /\ NonWhitespace(text) = <<>>
  /\ result = "False"

C12_AdmittedIffPositive ==
  fpc = "done" =>
    LET n0 == Len(heap0)
        rel(i) == CalculateAiScore(Get(heap0[stories0[i]], "title", <<>>),
                                   Get(heap0[stories0[i]], "url", <<>>)).score
        adm == { i \in 1..Len(stories0) : rel(i) > 0 }
        rank(i) == Cardinality({ j \in adm : j <= i })
    IN  /\ Len(heap) - n0 = Cardinality(adm)
        /\ \A i \in adm :
             LET c == heap[n0 + rank(i)]
                 o == heap0[stories0[i]]
             IN  /\ c.ai_score = rel(i)
                 /\ \A k \in DOMAIN o : c[k] = o[k]
        /\ \A j \in 1..Len(filtered) :
             LET c == heap[filtered[j]]
             IN  /\ filtered[j] > n0
                 /\ c.ai_score > 0
                 /\ c.combined_score
                      = (IF "score" \in DOMAIN c THEN c.score ELSE 0)
                        + c.ai_score

\* a story without relevance is left out, one without a score key is kept
C12_Witness ==
  /\ fpc = "done"
  /\ Len(stories0) = 3
  /\ Len(heap) - Len(heap0) = 2
  /\ \E j \in 1..Len(filtered) :
       /\ "score" \notin DOMAIN heap[filtered[j]]
       /\ heap[filtered[j]].combined_score = 3

\* C13: the returned list is ordered by non-increasing combined_score, has
\* min(MAX_ARTICLES, number admitted) distinct admitted dicts, and no
\* admitted dict that was cut off has a larger combined_score than a
\* returned one.
C13_SortedPrefixOfAdmitted ==
  fpc = "done" =>
    LET copies == (Len(heap0) + 1)..Len(heap)
        kept == { filtered[j] : j \in 1..Len(filtered) }
        n == Cardinality(copies)
    IN  /\ kept \subseteq copies
        /\ Cardinality(kept) = Len(filtered)
        /\ Len(filtered) = (IF n < max_articles THEN n ELSE max_articles)
        /\ \A i, j \in 1..Len(filtered) :
             i < j => heap[filtered[i]].combined_score
                        >= heap[filtered[j]].combined_score
        /\ \A c \in copies \ kept : \A k \in kept :
             heap[c].combined_score <= heap[k].combined_score

\* three admitted, the best one last in the input, the worst one cut off
C13_Witness ==
  /\ fpc = "done"
  /\ Len(heap) - Len(heap0) = 3
  /\ Len(filtered) = 2
  /\ filtered[1] = Len(heap)
  /\ heap[filtered[1]].combined_score > heap[filtered[2]].combined_score
  /\ heap[filtered[2]].combined_score > heap[Len(heap0) + 1].combined_score

\* C14: the returned list is never longer than MAX_ARTICLES.
C14_AtMostMaxArticles ==
  fpc = "done" => Len(filtered) <= max_articles

\* more stories admitted than MAX_ARTICLES
C14_Witness ==
  /\ fpc = "done"
  /\ max_articles = 1
  /\ Len(heap) - Len(heap0) = 3
  /\ Len(filtered) = 1

\* C15: during and after the call the input list holds the same dicts in
\* the same order and every input dict has the keys and values it had when
\* the call started.
C15_InputNotMutated ==
  /\ stories = stories0
  /\ Len(heap) >= Len(heap0)
  /\ \A id \in 1..Len(heap0) : heap[id] = heap0[id]

\* a returned dict carries the scoring keys, the input dict it copies not
C15_Witness ==
  /\ fpc = "done"
  /\ Len(filtered) = 2
  /\ \A j \in 1..2 :
       /\ "combined_score" \in DOMAIN heap[filtered[j]]
       /\ \E i \in 1..Len(stories) :
            /\ "combined_score" \notin DOMAIN heap[stories[i]]
            /\ \A k \in DOMAIN heap[stories[i]] :
                 heap[filtered[j]][k] = heap[stories[i]][k]

(***************************************************************************)
(* Properties of the matcher.                                              *)
(***************************************************************************)

\* C16: the returned score is 3 for every matched core keyword, 4 for every
\* matched brand keyword, 2 for every other matched keyword, plus 2 when a
\* known domain occurs in the URL; a keyword that occurs several times in
\* the title is counted and listed once.
C16_ScoreIsWeightedSum ==
  spc = "done" =>
    LET hits == { i \in 1..Len(AI_KEYWORDS) :
                    Search(KeywordPattern(i), title) }
        core == { i \in hits : AI_KEYWORDS[i] \in CoreKeywords }
        brand == { i \in hits : AI_KEYWORDS[i] \in BrandKeywords }
        other == hits \ (core \cup brand)
        bonus == \E i \in 1..Len(AI_DOMAINS) :
                   Contains(LowerAll(url), AI_DOMAINS[i])
        listed(k) == { j \in 1..Len(matched_out) :
                         matched_out[j] = AI_KEYWORDS[k] }
    IN  /\ score_out = 3 * Cardinality(core) + 4 * Cardinality(brand)
                       + 2 * Cardinality(other) + (IF bonus THEN 2 ELSE 0)
        /\ \A k \in 1..Len(AI_KEYWORDS) :
             Cardinality(listed(k)) = (IF k \in hits THEN 1 ELSE 0)

\* a title with "ai" twice and a brand keyword count, with a known domain
C16_Witness ==
  /\ spc = "done"
  /\ title = <<"A", ".", "I", ".", "a", "i">>
  /\ Contains(LowerAll(url), AI_DOMAINS[1])
  /\ score_out = 5
  /\ matched_out = <<"ai", "domain:openai.com">>

\* C17: whatever number of known domains occur in the URL, and however
\* often, at most one domain label is returned; when some domain occurs the
\* bonus is exactly 2 and the label names the first domain of the declared
\* order and is the last element of the list.
C17_DomainBonusOnce ==
  spc = "done" =>
    LET doms == { i \in 1..Len(AI_DOMAINS) :
                    Contains(LowerAll(url), AI_DOMAINS[i]) }
        labels == { j \in 1..Len(matched_out) :
                      \E i \in 1..Len(DOMAIN_LABELS) :
                         matched_out[j] = DOMAIN_LABELS[i] }
        kw == ScoreKeywords(title, 1, [score |-> 0, matched |-> <<>>])
    IN  /\ Cardinality(labels) <= 1
        /\ doms = {} => labels = {} /\ score_out = kw.score
        /\ doms # {} =>
             LET first == CHOOSE i \in doms : \A k \in doms : i <= k
             IN  /\ score_out = kw.score + 2
                 /\ labels = {Len(matched_out)}
                 /\ matched_out[Len(matched_out)] = DOMAIN_LABELS[first]

\* arxiv.org comes first in the URL, openai.com first in the declared order
C17_Witness ==
  /\ spc = "done"
  /\ Contains(LowerAll(url), AI_DOMAINS[1])
  /\ Contains(LowerAll(url), AI_DOMAINS[5])
  /\ url[1] = "a"
  /\ Len(matched_out) = 2
  /\ matched_out[2] = "domain:openai.com"
  /\ score_out = 6

\* C18: a domain label is returned only when the host of the URL (the part
\* between "://" and the next "/", "?" or "#") is a known domain or a
\* subdomain of one.
C18_BonusOnlyForKnownHost ==
  spc = "done" =>
    LET u == LowerAll(url)
        sch == { i \in 1..(Len(u) - 2) :
                   SubSeq(u, i, i + 2) = <<":", "/", "/">> }
        rest == IF sch = {} THEN u
                ELSE Suffix(u, (CHOOSE i \in sch : \A k \in sch : i <= k) + 2)
        stops == { i \in 1..Len(rest) : rest[i] \in {"/", "?", "#"} }
        host == IF stops = {} THEN rest
                ELSE Prefix(rest,
                       (CHOOSE i \in stops : \A k \in stops : i <= k) - 1)
        known == \E i \in 1..Len(AI_DOMAINS) :
                   \/ host = AI_DOMAINS[i]
                   \/ /\ Len(host) > Len(AI_DOMAINS[i])
                      /\ Suffix(host, Len(host) - Len(AI_DOMAINS[i]) - 1)
                           = <<".">> \o AI_DOMAINS[i]
        labelled == \E j \in 1..Len(matched_out) :
                      \E i \in 1..Len(DOMAIN_LABELS) :
                         matched_out[j] = DOMAIN_LABELS[i]
    IN  labelled => known

\* C19: a title that matches no keyword with a URL whose host is not a known
\* domain scores 0 with an empty label list.
C19_NoMatchScoresZero ==
  spc = "done" =>
    LET u == LowerAll(url)
        sch == { i \in 1..(Len(u) - 2) :
                   SubSeq(u, i, i + 2) = <<":", "/", "/">> }
        rest == IF sch = {} THEN u
                ELSE Suffix(u, (CHOOSE i \in sch : \A k \in sch : i <= k) + 2)
        stops == { i \in 1..Len(rest) : rest[i] \in {"/", "?", "#"} }
        host == IF stops = {} THEN rest
                ELSE Prefix(rest,
                       (CHOOSE i \in stops : \A k \in stops : i <= k) - 1)
        known == \E i \in 1..Len(AI_DOMAINS) :
                   \/ host = AI_DOMAINS[i]
                   \/ /\ Len(host) > Len(AI_DOMAINS[i])
                      /\ Suffix(host, Len(host) - Len(AI_DOMAINS[i]) - 1)
                           = <<".">> \o AI_DOMAINS[i]
        nohit == \A i \in 1..Len(AI_KEYWORDS) :
                   ~Search(KeywordPattern(i), title)
    IN  nohit /\ ~known => score_out = 0 /\ matched_out = <<>>

(***************************************************************************)
(* Properties of the naming helper.                                        *)
(***************************************************************************)

\* C20: for a name that ends in ".txt" the result is the name without its
\* last four characters followed by ".mp3"; for any other name it is the
\* name followed by ".mp3".
C20_OnlyTrailingExtensionReplaced ==
  npc = "done" =>
    LET n == Len(digest_filename)
    IN  IF n >= 4 /\ SubSeq(digest_filename, n - 3, n) = <<".", "t", "x", "t">>
          THEN podcast_filename
                 = SubSeq(digest_filename, 1, n - 4) \o <<".", "m", "p", "3">>
          ELSE podcast_filename = digest_filename \o <<".", "m", "p", "3">>

(***************************************************************************)
(* Properties of the construction.                                         *)
(***************************************************************************)

\* C21: the constructor raises exactly when the API key is None or empty or
\* the voice is none of the six valid voices; a constructed generator holds
\* the valid voice it was given, and generate_podcast only ever runs on a
\* constructed generator, whose voice it leaves alone.
C21_InvalidVoiceFailsAtConstruction ==
  LET valid == {"alloy", "echo", "fable", "onyx", "nova", "shimmer"}
      bad == api_key \in {PyNone, ""} \/ voice \notin valid
  IN  /\ kpc \in {"raised", "constructed"} => (kpc = "raised" <=> bad)
      /\ kpc = "raised" => self_voice = "" /\ ctor_error \in {"key", "voice"}
      /\ kpc = "constructed" => self_voice = voice /\ self_voice \in valid
      /\ rpc # "idle" => kpc = "constructed"

\* a generator constructed with the voice nova has rendered a podcast
C21_Witness ==
  /\ kpc = "constructed"
  /\ self_voice = "nova"
  /\ rpc = "returned"
  /\ result = "True"
  /\ Len(calls) = 2

\* C22: a synthesis call is made only when the parent directory exists, also
\* when it did not exist at the start of the call; for non-blank text the
\* directory step comes right after the blank check; mkdir never fails on a
\* directory that exists already, and after a failed mkdir no synthesis
\* call is made.
C22_DirectoryBeforeSynthesis ==
  /\ Len(calls) > 0 => dir_exists
  /\ "mkdir" \in raised => ~dir_exists0 /\ calls = <<>>
  /\ (NonWhitespace(text) # <<>> /\ rpc \notin {"idle", "start", "mkdir"}
       /\ "mkdir" \notin raised) => dir_exists

\* the directory was missing, was created, and the render succeeded
C22_Witness ==
  /\ rpc = "returned"
  /\ ~dir_exists0
  /\ dir_exists
  /\ Len(calls) = 2
  /\ result = "True"

\* C23: a text no longer than maxChunkSize comes back as the one-element
\* list holding the text itself, leading and trailing whitespace included.
C23_ShortTextIsOneChunk ==
  (cpc = "done" /\ Len(text) <= maxChunkSize) => chunks = <<text>>

\* a text of exactly maxChunkSize characters that starts with a space
C23_Witness ==
  /\ cpc = "done"
  /\ Len(text) = maxChunkSize
  /\ text[1] = " "
  /\ text[Len(text)] = " "
  /\ chunks = <<text>>

\* C26: in a chunking step, when the last ". ", "! " or "? " of the window
\* is at a position p with p >= 0.7 * maxChunkSize (p = 0.7 * maxChunkSize
\* included), the chunk is the first p + 2 characters of the remaining text.
C26_SentenceBreakAtOrPast70 ==
  [][(cpc = "loop" /\ Len(remaining_text) > maxChunkSize) =>
       LET p == SentenceBreak(Prefix(remaining_text, maxChunkSize))
       IN  10 * p >= 7 * maxChunkSize =>
             chunks' = Append(chunks, Prefix(remaining_text, p + 2))]_vars

C28_TiesKeepArrivalOrder ==
  fpc = "done" =>
    LET copies == (Len(heap0) + 1)..Len(heap)
        kept == { filtered[j] : j \in 1..Len(filtered) }
    IN  /\ \A i, j \in 1..Len(filtered) :
             (i < j /\ heap[filtered[i]].combined_score
                        = heap[filtered[j]].combined_score)
               => filtered[i] < filtered[j]
        /\ \A c \in copies \ kept : \A k \in kept :
             heap[c].combined_score = heap[k].combined_score => k < c

\* three admitted stories with the same combined_score, two of them kept
C28_Witness ==
  /\ fpc = "done"
  /\ Len(heap) - Len(heap0) = 3
  /\ filtered = <<Len(heap0) + 1, Len(heap0) + 2>>
  /\ heap[filtered[1]] # heap[filtered[2]]
  /\ \A c \in (Len(heap0) + 1)..Len(heap) : heap[c].combined_score = 3

(***************************************************************************)
(* Properties of the email sender.                                         *)
(***************************************************************************)

\* C24: a call with max_retries = n makes at most n attempts; the first
\* attempt that succeeds is the last one and the call returns True; the call
\* returns False exactly when n attempts were made and all failed; every
\* sleep stands between a failed attempt and the next attempt, and every
\* failed attempt but the n-th is followed by one sleep (k failures and a
\* success: k sleeps; n failures: n - 1 sleeps, none for n = 0).
C24_RetryBudgetAndSleeps ==
  LET tries == { i \in 1..Len(etrace) : etrace[i] # "sleep" }
      sleeps == { i \in 1..Len(etrace) : etrace[i] = "sleep" }
      n == max_retries
  IN  /\ Cardinality(tries) <= n
      /\ \A i \in 1..Len(etrace) : etrace[i] = "sent" => i = Len(etrace)
      /\ \A i \in sleeps :
           /\ i > 1 /\ etrace[i - 1] \notin {"sleep", "sent"}
           /\ Cardinality({ j \in tries : j < i }) < n
           /\ epc = "returned" => i < Len(etrace) /\ (i + 1) \in tries
      /\ epc = "returned" =>
           /\ eresult \in {"True", "False"}
           /\ eresult = "True" <=>
                (etrace # <<>> /\ etrace[Len(etrace)] = "sent")
           /\ eresult = "True" =>
                Cardinality(sleeps) = Cardinality(tries) - 1
           /\ eresult = "False" =>
                /\ Cardinality(tries) = n
                /\ Cardinality(sleeps) = (IF n = 0 THEN 0 ELSE n - 1)
           /\ Len(delays) = Cardinality(sleeps)

\* two failed attempts, two sleeps, then success on the third attempt
C24_Witness ==
  /\ epc = "returned"
  /\ eresult = "True"
  /\ max_retries = 3
  /\ etrace = <<"login", "sleep", "connect", "sleep", "sent">>
  /\ delays = <<5, 10>>

(***************************************************************************)
(* Properties of fetch_and_filter_stories.                                 *)
(***************************************************************************)
\* C25: once fetch_and_filter_stories has returned, its result is the empty
\* list and the ranker was never called when the top-stories request failed
\* or gave no id (and then no detail request was made) and when every
\* detail request failed; the result is empty when no fetched story is
\* relevant; otherwise the stories whose detail request failed are left out
\* and the ranker is called once, on the remaining ones in their order, and
\* its ranking is the result
C25_FailedStageYieldsEmpty ==
  LET TopIds == IF top_response.status = "ok" THEN top_response.data
                ELSE <<>>
      ok(i) == /\ item_responses[i].status = "ok"
               /\ item_responses[i].data.type = "story"
      ids == SelectSeq(TopIds, ok)
      Fetched == [j \in 1..Len(ids) |->
                    GetStoryDetails(item_responses[ids[j]]).value]
  IN  apc = "returned" =>
        /\ TopIds = <<>> =>
              /\ fetch_result = <<>>
              /\ ranker_calls = <<>>
              /\ api_requests = <<"top">>
        /\ Fetched = <<>> =>
              /\ fetch_result = <<>>
              /\ ranker_calls = <<>>
        /\ (\A i \in 1..Len(Fetched) : ~IsAiRelated(Fetched[i])) =>
              fetch_result = <<>>
        /\ Fetched # <<>> =>
              /\ ranker_calls = <<Fetched>>
              /\ fetch_result = FilterAndScoreStories(Fetched, MAX_ARTICLES)
              /\ Len(api_requests) = 1 + Len(TopIds)

\* a run where one detail request failed and a remaining story is ranked
C25_Witness ==
  /\ apc = "returned"
  /\ \E i \in 1..Len(story_ids) :
       item_responses[story_ids[i]].status = "error"
  /\ Len(ranker_calls) = 1
  /\ Len(ranker_calls[1]) < Len(story_ids)
  /\ Len(fetch_result) >= 1
(***************************************************************************)
(* Properties of run_full_digest_with_email.                               *)
(***************************************************************************)
\* C29: every run of run_full_digest_with_email without dry_run that has
\* returned sent the digest email, or attempted a backup write of the
\* digest content (and then the send, the construction of the sender or
\* the validation of the configuration had failed), or went through the
\* critical-failure handler, which attempted the fallback email and, when
\* the fallback was not sent, attempted an error-log write
C29_NoDigestLostSilently ==
  (dpc = "returned" /\ ~dry_run) =>
    \/ email_sent
    \/ /\ backup_writes # <<>>
       /\ failure_message \in {"Email sending failed after retries",
                                "Unexpected email error",
                                "Email setup failed"}
    \/ /\ critical_ran
       /\ fallback_sent \/ error_log_writes # <<>>

\* a run whose send failed and whose backup write failed too
C29_Witness ==
  /\ dpc = "returned"
  /\ ~dry_run
  /\ ~email_sent
  /\ failure_message = "Email sending failed after retries"
  /\ backup_writes = <<FALSE>>
(***************************************************************************)
(* Properties of scrape_and_summarize_stories.                             *)
(***************************************************************************)
\* C30: when scrape_and_summarize_stories has returned, the keys of the
\* map are exactly the non-empty URLs of the input stories; the entry of a
\* URL is the summary the summarizer gave for the last story with that URL
\* when its scrape and its summarization both succeeded, and otherwise a
\* fallback summary of that story; the scraper was called once for every
\* story that has a URL, in input order, the summarizer right after the
\* scrape of the same story and only when that scrape gave content, and no
\* call was made for a story without a URL
C30_SummariesPerUrl ==
  LET n == Len(story_list)
      U(i) == Get(story_list[i], "url", "")
      T(i) == Get(story_list[i], "title", "")
      has(i) == U(i) # ""
      good(v) == v \notin {PyNone, "", "-"}
      last(u) == CHOOSE k \in 1..n :
                   /\ U(k) = u
                   /\ \A j \in (k + 1)..n : U(j) # u
      ids == SelectSeq([i \in 1..n |-> i], has)
      sids == SelectSeq(ids, LAMBDA i : good(outcomes[i].content))
      scr == SelectSeq(collab_calls, LAMBDA c : c.fn = "scrape_article")
      smz == SelectSeq(collab_calls, LAMBDA c : c.fn = "summarize_article")
  IN  mpc = "returned" =>
        /\ DOMAIN summaries = {U(i) : i \in {j \in 1..n : has(j)}}
        /\ \A u \in DOMAIN summaries :
             LET k == last(u)
             IN  IF good(outcomes[k].content) /\ good(outcomes[k].summary)
                   THEN summaries[u] = [text |-> outcomes[k].summary]
                   ELSE \E r \in {"AI summarization failed",
                                   "content scraping failed"} :
                          summaries[u] =
                            [title |-> T(k), reason |-> r, url |-> u]
        /\ Len(scr) = Len(ids)
        /\ \A j \in 1..Len(ids) :
             scr[j].url = U(ids[j]) /\ scr[j].title = T(ids[j])
        /\ Len(smz) = Len(sids)
        /\ \A j \in 1..Len(sids) :
             smz[j].url = U(sids[j]) /\ smz[j].title = T(sids[j])
        /\ \A p \in 1..Len(collab_calls) :
             collab_calls[p].fn = "summarize_article" =>
               /\ p > 1
               /\ collab_calls[p - 1] =
                    [collab_calls[p] EXCEPT !.fn = "scrape_article"]

\* C30 as stated, an entry per story: when the function has returned, the
\* keys of the map are exactly the non-empty URLs of the input stories and,
\* for every input story with a URL, the entry of its URL is the summary
\* generated for that story when its scrape and its summarization both
\* succeeded and a fallback summary otherwise
C30_EveryStoryHasItsEntry ==
  LET n == Len(story_list)
      U(i) == Get(story_list[i], "url", "")
      has(i) == U(i) # ""
      good(v) == v \notin {PyNone, "", "-"}
  IN  mpc = "returned" =>
        /\ DOMAIN summaries = {U(i) : i \in {j \in 1..n : has(j)}}
        /\ \A i \in 1..n :
             has(i) =>
               IF good(outcomes[i].content) /\ good(outcomes[i].summary)
                 THEN summaries[U(i)] = [text |-> outcomes[i].summary]
                 ELSE "reason" \in DOMAIN summaries[U(i)]

\* a run with a story without a URL and two stories that share a URL, the
\* first summarized and the second not: the entry is the second's fallback
C30_Witness ==
  /\ mpc = "returned"
  /\ \E i \in 1..Len(story_list) : "url" \notin DOMAIN story_list[i]
  /\ \E i, j \in 1..Len(story_list) :
       /\ i < j
       /\ "url" \in DOMAIN story_list[i]
       /\ "url" \in DOMAIN story_list[j]
       /\ story_list[i].url = story_list[j].url
       /\ story_list[i].url # ""
       /\ outcomes[i].summary = "S1"
       /\ outcomes[j].content = "text"
       /\ outcomes[j].summary = PyNone
       /\ summaries[story_list[j].url] =
            [title |-> story_list[j].title,
             reason |-> "AI summarization failed",
             url |-> story_list[j].url]
====
